---- MODULE Spec2Model ----
(***************************************************************************)
(* Project/Task tracker: validation helpers, the in-memory store with its  *)
(* TodoService, and the repository-backed ProjectService / TaskService.    *)
(*                                                                         *)
(* Text is a sequence of one-character strings, so that strip(), split()   *)
(* and lower() are computed on the characters.  Python's None is the       *)
(* one-element sequence NONE, which no text equals.                        *)
(***************************************************************************)
EXTENDS Integers, Sequences, FiniteSets, TLC

\* ------------------------------------------------------------------ bounds
\* Stand-ins for the configured MAX_NUMBER_OF_PROJECT / MAX_NUMBER_OF_TASK.
MaxProjects == 2
MaxTasks == 2
\* Cap on the autoincrement primary keys handed out by the database.
MaxIds == 3
\* Cap on the ticks of the database server's clock.
MaxClock == 1
\* Cap on the midnights that pass.
MaxDays == 1

\* --------------------------------------------------------------- constants
MAX_NAME_WORDS == 30
MAX_DESCRIPTION_WORDS == 150

MAX_NUMBER_OF_PROJECT == MaxProjects
MAX_NUMBER_OF_TASK == MaxTasks

\* ------------------------------------------------------------------- text
NONE == <<"None">>

Whitespace == {" "}

SetMin(S) == CHOOSE x \in S : \A y \in S : x <= y
SetMax(S) == CHOOSE x \in S : \A y \in S : y <= x

\* str.strip(): drop the leading and the trailing whitespace
Strip(s) ==
    LET kept == {i \in 1..Len(s) : s[i] \notin Whitespace} IN
    IF kept = {} THEN <<>> ELSE SubSeq(s, SetMin(kept), SetMax(kept))

\* str.split(sep) for a one-character separator: empty fields are kept.
RECURSIVE SplitOn(_, _, _)
SplitOn(s, sep, cur) ==
    IF s = <<>> THEN <<cur>>
    ELSE IF Head(s) = sep THEN <<cur>> \o SplitOn(Tail(s), sep, <<>>)
    ELSE SplitOn(Tail(s), sep, Append(cur, Head(s)))

\* str.split() with no argument: the maximal runs of non-whitespace, in order.
Split(s) ==
    LET positions == [i \in 1..Len(s) |-> i]
        starts == SelectSeq(positions, LAMBDA i :
                      s[i] \notin Whitespace /\ (i = 1 \/ s[i - 1] \in Whitespace))
        ends == SelectSeq(positions, LAMBDA i :
                      s[i] \notin Whitespace /\ (i = Len(s) \/ s[i + 1] \in Whitespace))
    IN  [k \in 1..Len(starts) |-> SubSeq(s, starts[k], ends[k])]

LowerOf ==
    [c \in {"D", "O", "N", "E", "T", "I", "G"} |->
        CASE c = "D" -> "d" [] c = "O" -> "o" [] c = "N" -> "n"
          [] c = "E" -> "e" [] c = "T" -> "t" [] c = "I" -> "i"
          [] c = "G" -> "g"]

\* str.lower()
Lower(s) == [i \in 1..Len(s) |-> IF s[i] \in DOMAIN LowerOf THEN LowerOf[s[i]] ELSE s[i]]

\* ------------------------------------------------------------ input texts
\* n one-letter words separated by single spaces
Long(n) == [i \in 1..(2 * n - 1) |-> IF i % 2 = 1 THEN "a" ELSE " "]

NameA == <<"a">>
NameB == <<"b">>
NameC == <<"c">>
NameD == <<"d">>
NameAPadded == <<" ", "a">>
NameTwoWords == <<"a", " ", "b">>
NameEmpty == <<>>
NameBlank == <<" ">>
NameMaxWords == Long(MAX_NAME_WORDS)
NameTooLong == Long(MAX_NAME_WORDS + 1)

DescEmpty == <<>>
DescShort == <<"d">>
DescMaxWords == Long(MAX_DESCRIPTION_WORDS)
DescTooLong == Long(MAX_DESCRIPTION_WORDS + 1)

TODO == <<"t", "o", "d", "o">>
DOING == <<"d", "o", "i", "n", "g">>
DONE == <<"d", "o", "n", "e">>
StatusUpper == <<"D", "O", "N", "E">>
StatusPadded == <<" ", "D", "o", "i", "n", "g", " ">>
StatusBlank == <<" ">>
StatusBlocked == <<"b", "l", "o", "c", "k", "e", "d">>

\* ------------------------------------------------------------------- dates
\* A date is <<year, month, day>>; NoDate is the database NULL / Python None.
NoDate == <<>>

DigitOf ==
    [c \in {"0", "1", "2", "3", "4", "5", "6", "7", "8", "9"} |->
        CASE c = "0" -> 0 [] c = "1" -> 1 [] c = "2" -> 2 [] c = "3" -> 3
          [] c = "4" -> 4 [] c = "5" -> 5 [] c = "6" -> 6 [] c = "7" -> 7
          [] c = "8" -> 8 [] c = "9" -> 9]

IsNumber(f) == f # <<>> /\ \A i \in 1..Len(f) : f[i] \in DOMAIN DigitOf

RECURSIVE NumberOf(_)
NumberOf(f) ==
    IF f = <<>> THEN 0
    ELSE 10 * NumberOf(SubSeq(f, 1, Len(f) - 1)) + DigitOf[f[Len(f)]]

IsLeap(y) == (y % 4 = 0 /\ y % 100 # 0) \/ y % 400 = 0

DaysIn(y, m) ==
    IF m = 2 THEN (IF IsLeap(y) THEN 29 ELSE 28)
    ELSE IF m \in {4, 6, 9, 11} THEN 30 ELSE 31

\* datetime.strptime(text, "%Y-%m-%d").date(): <<TRUE, date>> or <<FALSE, _>>
\* for the ValueError.  %Y takes four digits, %m and %d one or two.
StrpDate(text) ==
    LET f == SplitOn(text, "-", <<>>) IN
    IF /\ Len(f) = 3
       /\ IsNumber(f[1]) /\ Len(f[1]) = 4
       /\ IsNumber(f[2]) /\ Len(f[2]) \in {1, 2}
       /\ IsNumber(f[3]) /\ Len(f[3]) \in {1, 2}
       /\ NumberOf(f[1]) >= 1
       /\ NumberOf(f[2]) \in 1..12
       /\ NumberOf(f[3]) \in 1..DaysIn(NumberOf(f[1]), NumberOf(f[2]))
    THEN <<TRUE, <<NumberOf(f[1]), NumberOf(f[2]), NumberOf(f[3])>> >>
    ELSE <<FALSE, NoDate>>

\* date < date
DateLT(a, b) ==
    \/ a[1] < b[1]
    \/ a[1] = b[1] /\ a[2] < b[2]
    \/ a[1] = b[1] /\ a[2] = b[2] /\ a[3] < b[3]

\* The calendar day after a date.
DayAfter(date) ==
    IF date[3] < DaysIn(date[1], date[2]) THEN <<date[1], date[2], date[3] + 1>>
    ELSE IF date[2] < 12 THEN <<date[1], date[2] + 1, 1>>
    ELSE <<date[1] + 1, 1, 1>>

DeadlineNone == NONE
DeadlineEmpty == <<>>
DeadlinePast == <<"2", "0", "2", "6", "-", "1", "1", "-", "0", "2">>
DeadlineToday == <<"2", "0", "2", "6", "-", "1", "1", "-", "0", "3">>
DeadlineFuture == <<"2", "0", "2", "6", "-", "1", "1", "-", "0", "4">>
DeadlineFuturePadded == <<" ">> \o DeadlineFuture \o <<" ">>
DeadlineNoSuchDay == <<"2", "0", "2", "7", "-", "0", "2", "-", "3", "0">>
DeadlineText == <<"s", "o", "o", "n">>
DeadlineShortDay == <<"2", "0", "2", "6", "-", "1", "1", "-", "4">>

StartDate == <<2026, 11, 3>>

\* --------------------------------------------------------- error kinds
OK == "ok"
ValidationError == "ValidationError"
ProjectNotFoundError == "ProjectNotFoundError"
TaskNotFoundError == "TaskNotFoundError"
DuplicateProjectError == "DuplicateProjectError"
DuplicateTaskError == "DuplicateTaskError"
ProjectLimitError == "ProjectLimitError"
TaskLimitError == "TaskLimitError"
DatabaseOperationError == "DatabaseOperationError"

\* The other classes of app/exceptions, and Python's own.
TodoError == "TodoError"
RepositoryError == "RepositoryError"
DatabaseConnectionError == "DatabaseConnectionError"
RecordNotFoundError == "RecordNotFoundError"
ProjectError == "ProjectError"
TaskError == "TaskError"
Exception == "Exception"
TypeError == "TypeError"

\* class X(Base): the base of each exception class.
BaseOf(cls) ==
    CASE cls \in {ValidationError, RepositoryError, ProjectError, TaskError} -> TodoError
      [] cls \in {DatabaseConnectionError, DatabaseOperationError, RecordNotFoundError}
            -> RepositoryError
      [] cls \in {ProjectNotFoundError, DuplicateProjectError, ProjectLimitError} -> ProjectError
      [] cls \in {TaskNotFoundError, DuplicateTaskError, TaskLimitError} -> TaskError
      [] OTHER -> Exception

RECURSIVE isinstance(_, _)
isinstance(exc, cls) ==
    \/ exc = cls
    \/ exc # Exception /\ isinstance(BaseOf(exc), cls)

\* The first error raised by a sequence of checks, OK when none raises.
RECURSIVE FirstError(_)
FirstError(checks) ==
    IF checks = <<>> THEN OK
    ELSE IF Head(checks) # OK THEN Head(checks)
    ELSE FirstError(Tail(checks))

\* ------------------------------------------------------------- validation
NameTexts ==
    {NameA, NameB, NameC, NameD, NameAPadded, NameTwoWords, NameEmpty,
     NameBlank, NameMaxWords, NameTooLong}

DescTexts == {DescEmpty, DescShort, DescMaxWords, DescTooLong}

\* len(str(text).strip().split()), tabulated once for the input texts.
WordCountOf == [s \in NameTexts \cup DescTexts |-> Len(Split(Strip(s)))]

WordCount(s) == WordCountOf[s]

validate_project_name(name) ==
    IF name = NONE \/ name = <<>> \/ Strip(name) = <<>> THEN ValidationError
    ELSE IF WordCount(name) > MAX_NAME_WORDS THEN ValidationError
    ELSE OK

validate_project_description(description) ==
    IF WordCount(description) > MAX_DESCRIPTION_WORDS THEN ValidationError ELSE OK

validate_task_name(name) ==
    IF name = NONE \/ name = <<>> \/ Strip(name) = <<>> THEN ValidationError
    ELSE IF WordCount(name) > MAX_NAME_WORDS THEN ValidationError
    ELSE OK

validate_task_description(description) ==
    IF WordCount(description) > MAX_DESCRIPTION_WORDS THEN ValidationError ELSE OK

AllowedStatus == {TODO, DOING, DONE}

\* validate_task_status comparing the text as it is written.
validate_task_status_CaseSensitive(status) ==
    IF status = NONE \/ Strip(status) = <<>> THEN <<OK, TODO>>
    ELSE LET normalized == Strip(status) IN
         IF normalized \notin AllowedStatus THEN <<ValidationError, normalized>>
         ELSE <<OK, normalized>>

\* <<error, normalized status>>
validate_task_status(status) ==
    IF status = NONE \/ Strip(status) = <<>> THEN <<OK, TODO>>
    ELSE LET normalized == Lower(Strip(status)) IN
         IF normalized \notin AllowedStatus THEN <<ValidationError, normalized>>
         ELSE <<OK, normalized>>

validate_task_deadline(deadline, now) ==
    IF deadline # NONE /\ Strip(deadline) # <<>>
    THEN LET parsed == StrpDate(Strip(deadline)) IN
         IF ~parsed[1] THEN ValidationError
         ELSE IF DateLT(parsed[2], now) THEN ValidationError
         ELSE OK
    ELSE OK

\* The date stored by the repositories for an already validated deadline.
parsed_deadline(deadline) ==
    IF deadline # NONE /\ Strip(deadline) # <<>>
    THEN StrpDate(Strip(deadline))[2]
    ELSE NoDate

\* any(p.name == name for p in existing)
NameIn(name, existing) == \E i \in 1..Len(existing) : existing[i].name = name

validate_unique_project_name(name, existing_projects) ==
    IF NameIn(name, existing_projects) THEN DuplicateProjectError ELSE OK

validate_unique_task_name(name, existing_tasks) ==
    IF NameIn(name, existing_tasks) THEN DuplicateTaskError ELSE OK


\* ------------------------------------------------------------------ state
VARIABLES
    layer,      \* "mem": TodoService over InMemoryStorage; "db": the services over the repositories
    projects,   \* InMemoryStorage.projects: list of Project, each owning its list of Task
    db,         \* the committed database: projects and tasks tables, primary-key sequences
    today,      \* date.today()
    last,       \* the operation that just ran and the error kind it raised (OK when none),
                \* until the caller has taken the result
    response,   \* the HTTP answer to the running request: <<status code>>, <<>> when none
    environ,    \* os.environ: variable name -> text, NONE when the variable is unset
    settings,   \* the limits computed when the configuration modules are imported
    sessions,   \* the database sessions of concurrent callers: the call each one is in,
                \* what it read, and what it raised
    identity,   \* the identity map of a long-lived session: the loaded, unexpired
                \* entities with the attribute values the session holds for them
    job,        \* the autoclose job running beside other sessions: the overdue tasks
                \* its session has loaded and has yet to close
    call,       \* a validator called on its own: its argument, what it returned or
                \* raised, and what it returned for its own result
    cli         \* the interactive front end: where main() stands, the menu option it
                \* handled last, what it reported for it, and why it ended

\* The state outside the stores, the clock and the running request.
others == <<environ, settings, sessions, identity, job, call, cli>>

vars == <<layer, projects, db, today, last, response, environ, settings, sessions, identity, job, call, cli>>

Result(err, store) == [err |-> err, store |-> store]

RemoveAt(seq, pos) == SubSeq(seq, 1, pos - 1) \o SubSeq(seq, pos + 1, Len(seq))

\* ------------------------------------------- app/storage/in_memory.py
\* Indexes are Python list indexes: 0 addresses the first element.
HasIndex(list, index) == 0 <= index /\ index < Len(list)

InMemoryStorage_get_project(ps, index) ==
    IF HasIndex(ps, index) THEN <<TRUE, ps[index + 1]>> ELSE <<FALSE, NONE>>

InMemoryStorage_get_task(ps, project_index, task_index) ==
    LET project == InMemoryStorage_get_project(ps, project_index) IN
    IF ~project[1] THEN <<FALSE, NONE>>
    ELSE IF HasIndex(project[2].tasks, task_index)
         THEN <<TRUE, project[2].tasks[task_index + 1]>>
         ELSE <<FALSE, NONE>>

\* The limit test lets one project too many in.
InMemoryStorage_add_project_OffByOne(ps, project) ==
    LET err == FirstError(<<
            validate_project_name(project.name),
            validate_project_description(project.description),
            validate_unique_project_name(project.name, ps),
            IF Len(ps) > MAX_NUMBER_OF_PROJECT THEN ProjectLimitError ELSE OK>>)
    IN  IF err # OK THEN Result(err, ps) ELSE Result(OK, Append(ps, project))

InMemoryStorage_add_project(ps, project) ==
    LET err == FirstError(<<
            validate_project_name(project.name),
            validate_project_description(project.description),
            validate_unique_project_name(project.name, ps),
            IF Len(ps) >= MAX_NUMBER_OF_PROJECT THEN ProjectLimitError ELSE OK>>)
    IN  IF err # OK THEN Result(err, ps) ELSE Result(OK, Append(ps, project))

InMemoryStorage_delete_project(ps, index) ==
    IF ~InMemoryStorage_get_project(ps, index)[1]
    THEN Result(ProjectNotFoundError, ps)
    ELSE Result(OK, RemoveAt(ps, index + 1))

\* add_task with the limit test written > instead of >=.
InMemoryStorage_add_task_OffByOne(ps, project_index, task, now) ==
    LET project == InMemoryStorage_get_project(ps, project_index) IN
    IF ~project[1] THEN Result(ProjectNotFoundError, ps)
    ELSE
    LET status == validate_task_status(task.status)
        err == FirstError(<<
            validate_task_name(task.name),
            validate_task_description(task.description),
            status[1],
            validate_task_deadline(task.deadline, now),
            validate_unique_task_name(task.name, project[2].tasks),
            IF Len(project[2].tasks) > MAX_NUMBER_OF_TASK THEN TaskLimitError ELSE OK>>)
        stored == [task EXCEPT !.status = status[2]]
    IN  IF err # OK THEN Result(err, ps)
        ELSE Result(OK, [ps EXCEPT ![project_index + 1].tasks = Append(@, stored)])

InMemoryStorage_add_task(ps, project_index, task, now) ==
    LET project == InMemoryStorage_get_project(ps, project_index) IN
    IF ~project[1] THEN Result(ProjectNotFoundError, ps)
    ELSE
    LET status == validate_task_status(task.status)
        err == FirstError(<<
            validate_task_name(task.name),
            validate_task_description(task.description),
            status[1],
            validate_task_deadline(task.deadline, now),
            validate_unique_task_name(task.name, project[2].tasks),
            IF Len(project[2].tasks) >= MAX_NUMBER_OF_TASK THEN TaskLimitError ELSE OK>>)
        stored == [task EXCEPT !.status = status[2]]
    IN  IF err # OK THEN Result(err, ps)
        ELSE Result(OK, [ps EXCEPT ![project_index + 1].tasks = Append(@, stored)])

\* delete_task taking the index as the 1-based number shown to the user:
\* del project.tasks[task_index - 1], where -1 is the last element.
InMemoryStorage_delete_task_OneBased(ps, project_index, task_index) ==
    IF ~InMemoryStorage_get_project(ps, project_index)[1]
    THEN Result(ProjectNotFoundError, ps)
    ELSE IF ~InMemoryStorage_get_task(ps, project_index, task_index)[1]
    THEN Result(TaskNotFoundError, ps)
    ELSE Result(OK, [ps EXCEPT ![project_index + 1].tasks =
            RemoveAt(@, IF task_index = 0 THEN Len(@) ELSE task_index)])

InMemoryStorage_delete_task(ps, project_index, task_index) ==
    IF ~InMemoryStorage_get_project(ps, project_index)[1]
    THEN Result(ProjectNotFoundError, ps)
    ELSE IF ~InMemoryStorage_get_task(ps, project_index, task_index)[1]
    THEN Result(TaskNotFoundError, ps)
    ELSE Result(OK, [ps EXCEPT ![project_index + 1].tasks = RemoveAt(@, task_index + 1)])

\* ------------------------------------------ app/services/todo_service.py
TodoService_create_project(ps, name, description) ==
    InMemoryStorage_add_project(ps,
        [name |-> name, description |-> description, tasks |-> <<>>])

TodoService_edit_project(ps, index, new_name, new_description) ==
    IF ~InMemoryStorage_get_project(ps, index)[1]
    THEN Result(ProjectNotFoundError, ps)
    ELSE Result(OK, [ps EXCEPT ![index + 1].name = new_name,
                               ![index + 1].description = new_description])

TodoService_delete_project(ps, index) == InMemoryStorage_delete_project(ps, index)

TodoService_create_task(ps, project_index, name, description, status, deadline, now) ==
    IF ~InMemoryStorage_get_project(ps, project_index)[1]
    THEN Result(ProjectNotFoundError, ps)
    ELSE InMemoryStorage_add_task(ps, project_index,
            [name |-> name, description |-> description,
             status |-> status, deadline |-> deadline], now)

TodoService_edit_task(ps, project_index, task_index, new_name, new_description, new_status, new_deadline) ==
    IF ~InMemoryStorage_get_task(ps, project_index, task_index)[1]
    THEN Result(TaskNotFoundError, ps)
    ELSE Result(OK, [ps EXCEPT ![project_index + 1].tasks[task_index + 1] =
            [name |-> new_name, description |-> new_description,
             status |-> new_status, deadline |-> new_deadline]])

\* edit_task_status rebuilding the task from its name and the new status.
TodoService_edit_task_status_Rebuilt(ps, project_index, task_index, new_status) ==
    IF ~InMemoryStorage_get_task(ps, project_index, task_index)[1]
    THEN Result(TaskNotFoundError, ps)
    ELSE Result(OK,
            [ps EXCEPT ![project_index + 1].tasks[task_index + 1] =
                [name |-> @.name, description |-> @.description,
                 status |-> new_status, deadline |-> NONE]])

TodoService_edit_task_status(ps, project_index, task_index, new_status) ==
    IF ~InMemoryStorage_get_task(ps, project_index, task_index)[1]
    THEN Result(TaskNotFoundError, ps)
    ELSE Result(OK,
            [ps EXCEPT ![project_index + 1].tasks[task_index + 1].status = new_status])

TodoService_delete_task(ps, project_index, task_index) ==
    InMemoryStorage_delete_task(ps, project_index, task_index)

\* What a read hands back: the error kind raised (OK when none) and the value.
Answer(err, value) == [err |-> err, value |-> value]

InMemoryStorage_list_projects(ps) == ps

InMemoryStorage_list_tasks(ps, project_index) ==
    LET project == InMemoryStorage_get_project(ps, project_index) IN
    IF ~project[1] THEN Answer(ProjectNotFoundError, <<>>)
    ELSE Answer(OK, project[2].tasks)

TodoService_list_projects(ps) == Answer(OK, InMemoryStorage_list_projects(ps))

TodoService_list_tasks(ps, project_index) == InMemoryStorage_list_tasks(ps, project_index)

TodoService_get_project_or_raise(ps, index) ==
    LET project == InMemoryStorage_get_project(ps, index) IN
    IF ~project[1] THEN Answer(ProjectNotFoundError, NONE) ELSE Answer(OK, project[2])

\* A missing project and a missing task both raise TaskNotFoundError.
TodoService_get_task_or_raise(ps, project_index, task_index) ==
    LET task == InMemoryStorage_get_task(ps, project_index, task_index) IN
    IF ~task[1] THEN Answer(TaskNotFoundError, NONE) ELSE Answer(OK, task[2])


\* ------------------------------------------------------------ the database
\* db.projects and db.tasks hold the committed rows in insertion order;
\* project_seq and task_seq are the last primary keys handed out; now is the
\* server's clock at the latest insert, read by the created_at column
\* default func.now().
NoId == 0 - 1

EmptyDb == [projects |-> <<>>, tasks |-> <<>>, project_seq |-> 0, task_seq |-> 0, now |-> 0]

COMMIT_OK == "commit"
COMMIT_ERROR == "error"
CommitOutcomes == {COMMIT_OK, COMMIT_ERROR}

\* A select(...).where(...) is the set of positions of the matching rows.
\* --------------------------------- app/repositories/project_repository.py
ProjectRepository_get_by_id(d, project_id) ==
    {i \in 1..Len(d.projects) : d.projects[i].id = project_id}

ProjectRepository_exists_by_name(d, name, exclude_id) ==
    \E i \in 1..Len(d.projects) :
        /\ d.projects[i].name = name
        /\ (exclude_id # NoId => d.projects[i].id # exclude_id)

ProjectRepository_create(d, name, description, commit) ==
    LET err == FirstError(<<
            validate_project_name(name),
            validate_project_description(description),
            IF Len(d.projects) >= MAX_NUMBER_OF_PROJECT THEN ProjectLimitError ELSE OK,
            IF ProjectRepository_exists_by_name(d, name, NoId)
            THEN DuplicateProjectError ELSE OK>>)
        project == [id |-> d.project_seq + 1, name |-> name, description |-> description,
                    created_at |-> d.now]
    IN  IF err # OK THEN Result(err, d)
        ELSE IF commit # COMMIT_OK THEN Result(DatabaseOperationError, d)
        ELSE Result(OK, [d EXCEPT !.projects = Append(@, project),
                                  !.project_seq = @ + 1])

ProjectRepository_update(d, project_id, name, description, commit) ==
    LET found == ProjectRepository_get_by_id(d, project_id)
        err == FirstError(<<
            validate_project_name(name),
            validate_project_description(description),
            IF found = {} THEN ProjectNotFoundError ELSE OK,
            IF ProjectRepository_exists_by_name(d, name, project_id)
            THEN DuplicateProjectError ELSE OK>>)
    IN  IF err # OK THEN Result(err, d)
        ELSE IF commit # COMMIT_OK THEN Result(DatabaseOperationError, d)
        ELSE Result(OK, [d EXCEPT !.projects =
                [i \in 1..Len(@) |->
                    IF i \in found
                    THEN [@[i] EXCEPT !.name = name, !.description = description]
                    ELSE @[i]]])

\* delete without the relationship cascade: the project's task rows stay.
ProjectRepository_delete_NoCascade(d, project_id, commit) ==
    IF ProjectRepository_get_by_id(d, project_id) = {}
    THEN Result(ProjectNotFoundError, d)
    ELSE IF commit # COMMIT_OK THEN Result(DatabaseOperationError, d)
    ELSE Result(OK, [d EXCEPT
            !.projects = SelectSeq(@, LAMBDA row : row.id # project_id)])

\* Deleting the project deletes its tasks (relationship cascade).
ProjectRepository_delete(d, project_id, commit) ==
    IF ProjectRepository_get_by_id(d, project_id) = {}
    THEN Result(ProjectNotFoundError, d)
    ELSE IF commit # COMMIT_OK THEN Result(DatabaseOperationError, d)
    ELSE Result(OK, [d EXCEPT
            !.projects = SelectSeq(@, LAMBDA row : row.id # project_id),
            !.tasks = SelectSeq(@, LAMBDA row : row.project_id # project_id)])

\* ------------------------------------ app/repositories/task_repository.py
TaskRepository_get_by_id(d, project_id, task_id) ==
    {i \in 1..Len(d.tasks) : d.tasks[i].id = task_id /\ d.tasks[i].project_id = project_id}

TaskRepository_exists_by_name_in_project(d, project_id, name, exclude_id) ==
    \E i \in 1..Len(d.tasks) :
        /\ d.tasks[i].project_id = project_id
        /\ d.tasks[i].name = name
        /\ (exclude_id # NoId => d.tasks[i].id # exclude_id)

\* select(func.count(Task.id)).where(Task.project_id == project_id)
TaskCount(d, project_id) ==
    Cardinality({i \in 1..Len(d.tasks) : d.tasks[i].project_id = project_id})

\* The limit test lets one task too many in.
TaskRepository_create_OffByOne(d, project_id, name, description, status, deadline, now, commit) ==
    IF ProjectRepository_get_by_id(d, project_id) = {}
    THEN Result(ProjectNotFoundError, d)
    ELSE
    LET normalized_status == validate_task_status(status)
        err == FirstError(<<
            validate_task_name(name),
            validate_task_description(description),
            normalized_status[1],
            validate_task_deadline(deadline, now),
            IF TaskCount(d, project_id) > MAX_NUMBER_OF_TASK THEN TaskLimitError ELSE OK,
            IF TaskRepository_exists_by_name_in_project(d, project_id, name, NoId)
            THEN DuplicateTaskError ELSE OK>>)
        task == [id |-> d.task_seq + 1, project_id |-> project_id, name |-> name,
                 description |-> description, status |-> normalized_status[2],
                 deadline |-> parsed_deadline(deadline), closed_at |-> NoDate,
                 created_at |-> d.now]
    IN  IF err # OK THEN Result(err, d)
        ELSE IF commit # COMMIT_OK THEN Result(DatabaseOperationError, d)
        ELSE Result(OK, [d EXCEPT !.tasks = Append(@, task), !.task_seq = @ + 1])

TaskRepository_create(d, project_id, name, description, status, deadline, now, commit) ==
    IF ProjectRepository_get_by_id(d, project_id) = {}
    THEN Result(ProjectNotFoundError, d)
    ELSE
    LET normalized_status == validate_task_status(status)
        err == FirstError(<<
            validate_task_name(name),
            validate_task_description(description),
            normalized_status[1],
            validate_task_deadline(deadline, now),
            IF TaskCount(d, project_id) >= MAX_NUMBER_OF_TASK THEN TaskLimitError ELSE OK,
            IF TaskRepository_exists_by_name_in_project(d, project_id, name, NoId)
            THEN DuplicateTaskError ELSE OK>>)
        task == [id |-> d.task_seq + 1, project_id |-> project_id, name |-> name,
                 description |-> description, status |-> normalized_status[2],
                 deadline |-> parsed_deadline(deadline), closed_at |-> NoDate,
                 created_at |-> d.now]
    IN  IF err # OK THEN Result(err, d)
        ELSE IF commit # COMMIT_OK THEN Result(DatabaseOperationError, d)
        ELSE Result(OK, [d EXCEPT !.tasks = Append(@, task), !.task_seq = @ + 1])

TaskRepository_update(d, task_id, name, description, status, deadline, now, commit) ==
    LET found == {i \in 1..Len(d.tasks) : d.tasks[i].id = task_id} IN
    IF found = {} THEN Result(TaskNotFoundError, d)
    ELSE
    LET task == d.tasks[CHOOSE i \in found : TRUE]
        normalized_status == validate_task_status(status)
        err == FirstError(<<
            validate_task_name(name),
            validate_task_description(description),
            normalized_status[1],
            validate_task_deadline(deadline, now),
            IF TaskRepository_exists_by_name_in_project(d, task.project_id, name, task_id)
            THEN DuplicateTaskError ELSE OK>>)
    IN  IF err # OK THEN Result(err, d)
        ELSE IF commit # COMMIT_OK THEN Result(DatabaseOperationError, d)
        ELSE Result(OK, [d EXCEPT !.tasks =
                [i \in 1..Len(@) |->
                    IF i \in found
                    THEN [@[i] EXCEPT !.name = name, !.description = description,
                                      !.status = normalized_status[2],
                                      !.deadline = parsed_deadline(deadline)]
                    ELSE @[i]]])

\* update_status going forward only (todo -> doing -> done) and never
\* reopening a task the autoclose job has closed.
StatusRank(status) == IF status = TODO THEN 1 ELSE IF status = DOING THEN 2 ELSE 3
TaskRepository_update_status_ForwardOnly(d, task_id, status, commit) ==
    LET found == {i \in 1..Len(d.tasks) : d.tasks[i].id = task_id}
        normalized_status == validate_task_status(status)
    IN  IF found = {} THEN Result(TaskNotFoundError, d)
        ELSE IF normalized_status[1] # OK THEN Result(normalized_status[1], d)
        ELSE IF \E i \in found :
                    \/ StatusRank(normalized_status[2]) < StatusRank(d.tasks[i].status)
                    \/ d.tasks[i].closed_at # NoDate
             THEN Result(ValidationError, d)
        ELSE IF commit # COMMIT_OK THEN Result(DatabaseOperationError, d)
        ELSE Result(OK, [d EXCEPT !.tasks =
                [i \in 1..Len(@) |->
                    IF i \in found THEN [@[i] EXCEPT !.status = normalized_status[2]]
                    ELSE @[i]]])

TaskRepository_update_status(d, task_id, status, commit) ==
    LET found == {i \in 1..Len(d.tasks) : d.tasks[i].id = task_id}
        normalized_status == validate_task_status(status)
    IN  IF found = {} THEN Result(TaskNotFoundError, d)
        ELSE IF normalized_status[1] # OK THEN Result(normalized_status[1], d)
        ELSE IF commit # COMMIT_OK THEN Result(DatabaseOperationError, d)
        ELSE Result(OK, [d EXCEPT !.tasks =
                [i \in 1..Len(@) |->
                    IF i \in found THEN [@[i] EXCEPT !.status = normalized_status[2]]
                    ELSE @[i]]])

\* delete selecting the task by its id alone, without Task.project_id == project_id.
TaskRepository_delete_AnyProject(d, project_id, task_id, commit) ==
    IF {i \in 1..Len(d.tasks) : d.tasks[i].id = task_id} = {}
    THEN Result(TaskNotFoundError, d)
    ELSE IF commit # COMMIT_OK THEN Result(DatabaseOperationError, d)
    ELSE Result(OK, [d EXCEPT !.tasks = SelectSeq(@, LAMBDA row : row.id # task_id)])

TaskRepository_delete(d, project_id, task_id, commit) ==
    IF TaskRepository_get_by_id(d, project_id, task_id) = {}
    THEN Result(TaskNotFoundError, d)
    ELSE IF commit # COMMIT_OK THEN Result(DatabaseOperationError, d)
    ELSE Result(OK, [d EXCEPT !.tasks = SelectSeq(@, LAMBDA row : row.id # task_id)])

\* ------------------------------------------------- repository reads
\* order_by(created_at.asc()): oldest first.
CreatedAtAsc(rows) ==
    LET n == Len(rows)
        Orders == {f \in [1..n -> 1..n] :
                      /\ \A i, j \in 1..n : f[i] = f[j] => i = j
                      /\ \A i, j \in 1..n :
                             i < j => rows[f[i]].created_at <= rows[f[j]].created_at}
    IN  {[i \in 1..n |-> rows[f[i]]] : f \in Orders}

\* order_by(created_at.desc()): every arrangement of the rows in which no row
\* comes before a row created later; rows created at the same instant come
\* in an order the database chooses.
CreatedAtDesc(rows) ==
    LET n == Len(rows)
        Orders == {f \in [1..n -> 1..n] :
                      /\ \A i, j \in 1..n : f[i] = f[j] => i = j
                      /\ \A i, j \in 1..n :
                             i < j => rows[f[i]].created_at >= rows[f[j]].created_at}
    IN  {[i \in 1..n |-> rows[f[i]]] : f \in Orders}

ProjectRepository_get_all(d) == CreatedAtDesc(d.projects)

\* get_all_by_project without the project existence test: an unknown id lists nothing.
TaskRepository_get_all_by_project_NoParentCheck(d, project_id) ==
    {Answer(OK, rows) :
        rows \in CreatedAtDesc(SelectSeq(d.tasks, LAMBDA row : row.project_id = project_id))}

TaskRepository_get_all_by_project(d, project_id) ==
    IF ProjectRepository_get_by_id(d, project_id) = {}
    THEN {Answer(ProjectNotFoundError, <<>>)}
    ELSE {Answer(OK, rows) :
            rows \in CreatedAtDesc(SelectSeq(d.tasks, LAMBDA row : row.project_id = project_id))}

TaskRepository_get_all(d) == CreatedAtDesc(d.tasks)

\* get_overdue_tasks taking the tasks due today for overdue.
TaskRepository_get_overdue_tasks_DueToday(d, now) ==
    {i \in 1..Len(d.tasks) :
        /\ d.tasks[i].deadline # NoDate
        /\ ~DateLT(now, d.tasks[i].deadline)
        /\ d.tasks[i].status # DONE}

\* The rows (positions in d.tasks) with a deadline before today that are not done.
TaskRepository_get_overdue_tasks(d, now) ==
    {i \in 1..Len(d.tasks) :
        /\ d.tasks[i].deadline # NoDate
        /\ DateLT(d.tasks[i].deadline, now)
        /\ d.tasks[i].status # DONE}

\* ------------------------------------------ app/commands/autoclose_overdue.py
\* Each overdue task is marked done and stamped, and committed on its own; a
\* failed commit is rolled back and the job goes on to the next task.
autoclose_overdue_tasks(d, now, commits) ==
    [d EXCEPT !.tasks =
        [i \in 1..Len(@) |->
            IF i \in TaskRepository_get_overdue_tasks(d, now) /\ commits[i] = COMMIT_OK
            THEN [@[i] EXCEPT !.status = DONE, !.closed_at = now]
            ELSE @[i]]]

\* --------------------------------------- app/services/project_service.py
ProjectService_create_project(d, name, description, commit) ==
    ProjectRepository_create(d, name, description, commit)

ProjectService_edit_project(d, project_id, new_name, new_description, commit) ==
    ProjectRepository_update(d, project_id, new_name, new_description, commit)

ProjectService_delete_project(d, project_id, commit) ==
    ProjectRepository_delete(d, project_id, commit)

\* The listings hand back one of the arrangements the database may choose.
ProjectService_list_projects(d) == {Answer(OK, rows) : rows \in ProjectRepository_get_all(d)}

ProjectService_get_project(d, project_id) ==
    LET found == ProjectRepository_get_by_id(d, project_id) IN
    IF found = {} THEN Answer(ProjectNotFoundError, NONE)
    ELSE Answer(OK, d.projects[CHOOSE i \in found : TRUE])

\* ------------------------------------------ app/services/task_service.py
TaskService_create_task(d, project_id, name, description, status, deadline, now, commit) ==
    TaskRepository_create(d, project_id, name, description, status, deadline, now, commit)

TaskService_edit_task(d, project_id, task_id, new_name, new_description, new_status, new_deadline, now, commit) ==
    IF TaskRepository_get_by_id(d, project_id, task_id) = {}
    THEN Result(TaskNotFoundError, d)
    ELSE TaskRepository_update(d, task_id, new_name, new_description,
                               new_status, new_deadline, now, commit)

TaskService_edit_task_status(d, project_id, task_id, new_status, commit) ==
    IF TaskRepository_get_by_id(d, project_id, task_id) = {}
    THEN Result(TaskNotFoundError, d)
    ELSE TaskRepository_update_status(d, task_id, new_status, commit)

TaskService_delete_task(d, project_id, task_id, commit) ==
    TaskRepository_delete(d, project_id, task_id, commit)

TaskService_list_tasks(d, project_id) == TaskRepository_get_all_by_project(d, project_id)

TaskService_list_all_tasks(d) == {Answer(OK, rows) : rows \in TaskRepository_get_all(d)}

TaskService_get_task(d, project_id, task_id) ==
    LET found == TaskRepository_get_by_id(d, project_id, task_id) IN
    IF found = {} THEN Answer(TaskNotFoundError, NONE)
    ELSE Answer(OK, d.tasks[CHOOSE i \in found : TRUE])


\* ------------------------------- app/api/controllers/users_controller.py
\* No answer sent; an answer is <<status code>>.
NoResponse == <<>>
HTTP_200_OK == 200
HTTP_201_CREATED == 201
HTTP_204_NO_CONTENT == 204
HTTP_400_BAD_REQUEST == 400
HTTP_404_NOT_FOUND == 404
HTTP_409_CONFLICT == 409
HTTP_500_INTERNAL_SERVER_ERROR == 500

\* _error_response with the limit errors missing from the first branch.
_error_response_LimitsUnmapped(exc, default_status) ==
    IF isinstance(exc, ValidationError) THEN HTTP_400_BAD_REQUEST
    ELSE IF isinstance(exc, DuplicateProjectError) \/ isinstance(exc, DuplicateTaskError)
    THEN HTTP_409_CONFLICT
    ELSE IF isinstance(exc, ProjectNotFoundError) \/ isinstance(exc, TaskNotFoundError)
    THEN HTTP_404_NOT_FOUND
    ELSE IF isinstance(exc, DatabaseOperationError) THEN HTTP_500_INTERNAL_SERVER_ERROR
    ELSE default_status

_error_response(exc, default_status) ==
    IF \/ isinstance(exc, ValidationError)
       \/ isinstance(exc, ProjectLimitError)
       \/ isinstance(exc, TaskLimitError)
    THEN HTTP_400_BAD_REQUEST
    ELSE IF isinstance(exc, DuplicateProjectError) \/ isinstance(exc, DuplicateTaskError)
    THEN HTTP_409_CONFLICT
    ELSE IF isinstance(exc, ProjectNotFoundError) \/ isinstance(exc, TaskNotFoundError)
    THEN HTTP_404_NOT_FOUND
    ELSE IF isinstance(exc, DatabaseOperationError) THEN HTTP_500_INTERNAL_SERVER_ERROR
    ELSE default_status

\* ------------------------------------------------------------ app/main.py
\* The handlers registered with @app.exception_handler, looked up along the
\* classes of the exception; an exception without one becomes the server's
\* 500 answer.
exception_handler(exc) ==
    IF isinstance(exc, ValidationError) THEN 400
    ELSE IF isinstance(exc, ProjectNotFoundError) \/ isinstance(exc, TaskNotFoundError)
    THEN 404
    ELSE IF isinstance(exc, DuplicateProjectError) \/ isinstance(exc, DuplicateTaskError)
    THEN 409
    ELSE IF isinstance(exc, ProjectLimitError) \/ isinstance(exc, TaskLimitError)
    THEN 400
    ELSE IF isinstance(exc, DatabaseOperationError) THEN 500
    ELSE HTTP_500_INTERNAL_SERVER_ERROR

\* Python's `a or b` on optional text: b when a is None or empty.
OrElse(a, b) == IF a = NONE \/ a = <<>> THEN b ELSE a

\* date.isoformat(): YYYY-MM-DD, zero padded.
DigitChars == <<"0", "1", "2", "3", "4", "5", "6", "7", "8", "9">>
Padded(n, width) ==
    [i \in 1..width |-> DigitChars[((n \div (10 ^ (width - i))) % 10) + 1]]
isoformat(date) ==
    Padded(date[1], 4) \o <<"-">> \o Padded(date[2], 2) \o <<"-">> \o Padded(date[3], 2)

\* ----------------------------------------------------------------- inputs
MEM == "mem"
DB == "db"

ProjectRequest(name, description) == [name |-> name, description |-> description]

TaskRequest(name, description, status, deadline) ==
    [name |-> name, description |-> description, status |-> status, deadline |-> deadline]

\* Python list indexes offered to the in-memory service (-1 and Len address nothing).
ProjectIndexes == (0 - 1)..MaxProjects
TaskIndexes == (0 - 1)..MaxTasks
\* Primary keys offered to the repository-backed services, assigned or not.
Ids == 1..MaxIds

\* Project-centred runs: every kind of project name and description, one plain task.
ProjectRequests ==
    {ProjectRequest(NameA, DescShort), ProjectRequest(NameB, DescEmpty),
     ProjectRequest(NameMaxWords, DescMaxWords),
     ProjectRequest(NameEmpty, DescShort), ProjectRequest(NameBlank, DescShort),
     ProjectRequest(NameTooLong, DescShort), ProjectRequest(NameC, DescTooLong)}
PlainTaskRequests == {TaskRequest(NameA, DescShort, TODO, NONE)}
PlainStatuses == {TODO}

\* Task-centred runs: plain projects (one in memory, two in the database),
\* MaxTasks + 1 valid task names.
PlainProjectRequests == {ProjectRequest(NameA, DescShort), ProjectRequest(NameB, DescShort)}
TaskNames == {<<NameA, NameB, NameC, NameD>>[i] : i \in 1..(MaxTasks + 1)}
NamedTaskRequests == {TaskRequest(n, DescShort, TODO, NONE) : n \in TaskNames}
NamedTaskCreateRequests ==
    NamedTaskRequests \cup {TaskRequest(NameEmpty, DescShort, TODO, NONE)}
NormalStatuses == {TODO}

\* Status-centred runs: one project, every kind of status text.
OneProjectRequests == {ProjectRequest(NameA, DescShort)}
StatusTexts ==
    {NONE, StatusBlank, StatusUpper, StatusPadded, StatusBlocked, TODO}
StatusTaskRequests ==
    {TaskRequest(n, DescShort, st, NONE) : n \in {NameA, NameB}, st \in StatusTexts}

\* Ref- and order-centred runs: plain projects and tasks.
RefProjectRequests == {ProjectRequest(n, DescShort) : n \in {NameA, NameB}}
RefTaskRequests == {TaskRequest(n, DescShort, TODO, NONE) : n \in {NameA, NameB}}

\* ---------------------------------------------------------- configuration
\* str(n) of a natural number
RECURSIVE str(_)
str(n) ==
    IF n < 10 THEN <<DigitChars[n + 1]>>
    ELSE str(n \div 10) \o <<DigitChars[(n % 10) + 1]>>

\* int(text): <<TRUE, value>>, or <<FALSE, 0>> for the ValueError.  The
\* surrounding whitespace is dropped, one sign may lead, and single
\* underscores may separate the digits.
int(text) ==
    LET s == Strip(text)
        signed == s # <<>> /\ s[1] \in {"+", "-"}
        body == IF signed THEN Tail(s) ELSE s
        digits == SelectSeq(body, LAMBDA c : c # "_")
        wellformed ==
            /\ body # <<>>
            /\ \A i \in 1..Len(body) : body[i] \in DOMAIN DigitOf \cup {"_"}
            /\ body[1] # "_"
            /\ body[Len(body)] # "_"
            /\ \A i \in 1..(Len(body) - 1) : ~(body[i] = "_" /\ body[i + 1] = "_")
    IN  IF ~wellformed THEN <<FALSE, 0>>
        ELSE <<TRUE, IF signed /\ s[1] = "-" THEN 0 - NumberOf(digits)
                     ELSE NumberOf(digits)>>

\* os.getenv(name): the text, or None (NONE) when the variable is unset
getenv(env, var_name) == env[var_name]

_get_positive_int_env_ZeroAllowed(env, var_name, default_value) ==
    LET raw_value == getenv(env, var_name)
        parsed == int(raw_value)
    IN  IF raw_value = NONE THEN default_value
        ELSE IF ~parsed[1] THEN default_value
        ELSE IF parsed[2] < 0 THEN default_value
        ELSE parsed[2]

\* app.config.settings._get_positive_int_env
_get_positive_int_env(env, var_name, default_value) ==
    LET raw_value == getenv(env, var_name)
        parsed == int(raw_value)
    IN  IF raw_value = NONE THEN default_value
        ELSE IF ~parsed[1] THEN default_value
        ELSE IF parsed[2] < 1 THEN default_value
        ELSE parsed[2]

\* config._get_positive_int_from_candidates (the flat legacy module): the
\* first candidate name whose value parses to a positive integer wins.
RECURSIVE _get_positive_int_from_candidates(_, _, _)
_get_positive_int_from_candidates(env, candidates, default_value) ==
    IF candidates = <<>> THEN default_value
    ELSE LET value == getenv(env, Head(candidates))
             parsed == int(value)
         IN  IF value = NONE
             THEN _get_positive_int_from_candidates(env, Tail(candidates), default_value)
             ELSE IF parsed[1] /\ parsed[2] > 0 THEN parsed[2]
             ELSE _get_positive_int_from_candidates(env, Tail(candidates), default_value)

EnvNames ==
    {"MAX_NUMBER_OF_PROJECT", "MAX_NUMBER_OF_TASK",
     "PROJECT_OF_NUMBER_MAX", "TASK_OF_NUMBER_MAX"}

\* The module-level assignments of app/config/settings.py
app_config_settings(env) ==
    [MAX_NUMBER_OF_PROJECT |-> _get_positive_int_env(env, "MAX_NUMBER_OF_PROJECT", 10),
     MAX_NUMBER_OF_TASK |-> _get_positive_int_env(env, "MAX_NUMBER_OF_TASK", 50)]

\* The module-level assignments of the legacy config.py
config(env) ==
    [MAX_NUMBER_OF_PROJECT |->
        _get_positive_int_from_candidates(
            env, <<"MAX_NUMBER_OF_PROJECT", "PROJECT_OF_NUMBER_MAX">>, 10),
     MAX_NUMBER_OF_TASK |->
        _get_positive_int_from_candidates(
            env, <<"MAX_NUMBER_OF_TASK", "TASK_OF_NUMBER_MAX">>, 50)]

\* The callers that hold a session of their own (SessionLocal() per request
\* or process).
Sessions == {"s1", "s2"}

\* A session between calls; in a call that has passed its checks and has its
\* commit ahead; after a call, with what the call raised.
NoCall == [pc |-> "idle", op |-> "none", project_id |-> NoId, r |-> <<>>, err |-> OK]
Pending(op, project_id, r) ==
    [pc |-> "pending", op |-> op, project_id |-> project_id, r |-> r, err |-> OK]
\* The caller keeps the error and the statement that raised it, not the request.
Done(op, raised_by, err) ==
    [pc |-> raised_by, op |-> op, project_id |-> NoId, r |-> <<>>, err |-> err]

\* A session that has loaded nothing, or whose objects are all expired.
NoObjects == [projects |-> {}, tasks |-> {}]

\* The autoclose job is not running.
NotRunning == [pc |-> "off", overdue |-> {}]

\* No validator is being called on its own.
NotCalled == <<>>

\* The interactive front end before main() is called.
NotStarted == [at |-> "off", option |-> 0, cause |-> "", reported |-> OK]

\* A module that has not been imported has no attributes.
NotImported == <<>>

\* The environment this model's stores run under: the limits are set to the
\* bounds by their preferred names.
Configured ==
    [name \in EnvNames |->
        CASE name = "MAX_NUMBER_OF_PROJECT" -> str(MaxProjects)
          [] name = "MAX_NUMBER_OF_TASK" -> str(MaxTasks)
          [] OTHER -> NONE]

\* Environment texts: unset, empty, zero, positive, negative, signed, padded,
\* underscored, not a number, not an integer.
EnvTexts ==
    {NONE, <<>>, <<"0">>, <<"3">>, <<"-", "1">>, <<"+", "2">>, <<" ", "4", " ">>,
     <<"1", "_", "2">>, <<"a", "b", "c">>, <<"2", ".", "5">>}

\* ---------------------------------------------------------------- actions
Idle == [op |-> "idle", err |-> OK]

Init ==
    /\ layer \in {MEM, DB}
    /\ projects = <<>>
    /\ db = EmptyDb
    /\ today = StartDate
    /\ last = Idle
    /\ response = NoResponse
    /\ environ = Configured
    /\ settings = [app |-> app_config_settings(Configured), legacy |-> NotImported]
    /\ sessions = [s \in Sessions |-> NoCall]
    /\ identity = NoObjects
    /\ job = NotRunning
    /\ call = NotCalled
    /\ cli = NotStarted

\* Every service operation runs to completion and hands its result to the
\* caller before the next one begins.
MemStep(op, res) ==
    /\ layer = MEM
    /\ last = Idle
    /\ projects' = res.store
    /\ last' = [op |-> op, err |-> res.err]
    /\ UNCHANGED <<layer, db, today, response, others>>

\* A successful insert needs a primary key within the cap.
DbStep(op, res) ==
    /\ layer = DB
    /\ last = Idle
    /\ res.store.project_seq <= MaxIds
    /\ res.store.task_seq <= MaxIds
    /\ db' = res.store
    /\ last' = [op |-> op, err |-> res.err]
    /\ UNCHANGED <<layer, projects, today, response, others>>

MemCreateProject(Reqs) ==
    \E r \in Reqs :
        MemStep("createProject", TodoService_create_project(projects, r.name, r.description))

MemEditProject(Reqs) ==
    \E index \in ProjectIndexes, r \in Reqs :
        MemStep("editProject",
                TodoService_edit_project(projects, index, r.name, r.description))

MemDeleteProject ==
    \E index \in ProjectIndexes :
        MemStep("deleteProject", TodoService_delete_project(projects, index))

MemCreateTask(Reqs) ==
    \E project_index \in ProjectIndexes, r \in Reqs :
        MemStep("createTask",
                TodoService_create_task(projects, project_index, r.name, r.description,
                                        r.status, r.deadline, today))

MemEditTask(Reqs) ==
    \E project_index \in ProjectIndexes, task_index \in TaskIndexes, r \in Reqs :
        MemStep("editTask",
                TodoService_edit_task(projects, project_index, task_index, r.name,
                                      r.description, r.status, r.deadline))

MemEditTaskStatus(Statuses) ==
    \E project_index \in ProjectIndexes, task_index \in TaskIndexes, st \in Statuses :
        MemStep("editTaskStatus",
                TodoService_edit_task_status(projects, project_index, task_index, st))

MemDeleteTask ==
    \E project_index \in ProjectIndexes, task_index \in TaskIndexes :
        MemStep("deleteTask", TodoService_delete_task(projects, project_index, task_index))

\* The server's clock when an insert runs, elapsed after the previous insert.
Later(d, elapsed) == [d EXCEPT !.now = @ + elapsed]

\* The clock is read by inserts only: a refused insert leaves no trace of it.
Inserted(res) == IF res.err = OK THEN res ELSE Result(res.err, db)

DbCreateProject(Reqs, Commits, Elapsed) ==
    \E r \in Reqs, commit \in Commits, elapsed \in Elapsed :
        /\ db.now + elapsed <= MaxClock
        /\ DbStep("createProject",
                  Inserted(ProjectService_create_project(Later(db, elapsed), r.name,
                                                         r.description, commit)))

DbEditProject(Reqs, Commits) ==
    \E project_id \in Ids, r \in Reqs, commit \in Commits :
        DbStep("editProject",
               ProjectService_edit_project(db, project_id, r.name, r.description, commit))

DbDeleteProject(Commits) ==
    \E project_id \in Ids, commit \in Commits :
        DbStep("deleteProject", ProjectService_delete_project(db, project_id, commit))

DbCreateTask(Reqs, Commits, Elapsed) ==
    \E project_id \in Ids, r \in Reqs, commit \in Commits, elapsed \in Elapsed :
        /\ db.now + elapsed <= MaxClock
        /\ DbStep("createTask",
                  Inserted(TaskService_create_task(Later(db, elapsed), project_id, r.name,
                                                   r.description, r.status, r.deadline,
                                                   today, commit)))

DbEditTask(Reqs, Commits) ==
    \E project_id \in Ids, task_id \in Ids, r \in Reqs, commit \in Commits :
        DbStep("editTask",
               TaskService_edit_task(db, project_id, task_id, r.name, r.description,
                                     r.status, r.deadline, today, commit))

DbEditTaskStatus(Statuses, Commits) ==
    \E project_id \in Ids, task_id \in Ids, st \in Statuses, commit \in Commits :
        DbStep("editTaskStatus",
               TaskService_edit_task_status(db, project_id, task_id, st, commit))

DbDeleteTask(Commits) ==
    \E project_id \in Ids, task_id \in Ids, commit \in Commits :
        DbStep("deleteTask", TaskService_delete_task(db, project_id, task_id, commit))

RECURSIVE DayN(_)
DayN(n) == IF n = 0 THEN StartDate ELSE DayAfter(DayN(n - 1))

\* The autoclose job: it prints what it did and raises nothing.
DbAutoclose(Commits) ==
    \E commits \in [TaskRepository_get_overdue_tasks(db, today) -> Commits] :
        DbStep("autoclose", Result(OK, autoclose_overdue_tasks(db, today, commits)))

\* Midnight passes: date.today() moves on.
Midnight ==
    /\ last = Idle
    /\ \E n \in 0..(MaxDays - 1) : today = DayN(n)
    /\ today' = DayAfter(today)
    /\ UNCHANGED <<layer, projects, db, last, response, others>>

\* The reads leave the store as it is.
MemListProjects ==
    MemStep("listProjects", Result(TodoService_list_projects(projects).err, projects))

MemListTasks ==
    \E project_index \in ProjectIndexes :
        MemStep("listTasks", Result(TodoService_list_tasks(projects, project_index).err, projects))

DbListProjects ==
    \E answer \in ProjectService_list_projects(db) :
        DbStep("listProjects", Result(answer.err, db))

DbGetProject ==
    \E project_id \in Ids :
        DbStep("getProject", Result(ProjectService_get_project(db, project_id).err, db))

DbListTasks ==
    \E project_id \in Ids :
        \E answer \in TaskService_list_tasks(db, project_id) :
            DbStep("listTasks", Result(answer.err, db))

DbListAllTasks ==
    \E answer \in TaskService_list_all_tasks(db) :
        DbStep("listAllTasks", Result(answer.err, db))

DbGetTask ==
    \E project_id \in Ids, task_id \in Ids :
        DbStep("getTask", Result(TaskService_get_task(db, project_id, task_id).err, db))

Reads ==
    \/ MemListProjects
    \/ MemListTasks
    \/ DbListProjects
    \/ DbGetProject
    \/ DbListTasks
    \/ DbListAllTasks
    \/ DbGetTask

\* -------------------------------------------------------- API endpoints
\* Requests that pass the pydantic request schemas.
ApiProjectCreates == {ProjectRequest(n, NONE) : n \in {NameA, NameB}}
ApiProjectUpdates == {ProjectRequest(NONE, NONE)}
ApiTaskCreates ==
    {TaskRequest(NameA, NONE, TODO, NONE), TaskRequest(NameB, NONE, TODO, DeadlineToday)}
ApiTaskUpdates == {TaskRequest(NONE, NONE, NONE, NONE)}
ApiStatuses == {TODO}

\* What a service call may raise besides its own errors: a lost connection,
\* a repository or programming error.  OK: nothing of the kind.
Faults == {OK, RecordNotFoundError, TypeError}
Raised(fault, res) == IF fault = OK THEN res ELSE Result(fault, db)

\* try: <service calls>; return the entity with the endpoint's status
\* except Exception as exc: return _error_response(exc)
ApiStep(op, status_code, res) ==
    /\ layer = DB
    /\ last = Idle
    /\ res.store.project_seq <= MaxIds
    /\ res.store.task_seq <= MaxIds
    /\ db' = res.store
    /\ last' = [op |-> op, err |-> res.err]
    /\ response' = IF res.err = OK THEN <<status_code>>
                   ELSE <<_error_response(res.err, HTTP_500_INTERNAL_SERVER_ERROR)>>
    /\ UNCHANGED <<layer, projects, today, others>>

\* An exception raised while the endpoint's dependencies are resolved is
\* outside the endpoint's try and reaches the application's handlers.
get_todo_service ==
    \E exc \in {DatabaseOperationError, DatabaseConnectionError, TypeError} :
        /\ layer = DB
        /\ last = Idle
        /\ last' = [op |-> "Depends(get_todo_service)", err |-> exc]
        /\ response' = <<exception_handler(exc)>>
        /\ UNCHANGED <<layer, projects, db, today, others>>

create_project ==
    \E r \in ApiProjectCreates, commit \in CommitOutcomes, fault \in Faults :
        ApiStep("POST /projects", HTTP_201_CREATED,
                Raised(fault, ProjectService_create_project(
                                  db, r.name, OrElse(r.description, <<>>), commit)))

list_projects ==
    \E answer \in ProjectService_list_projects(db), fault \in Faults :
        ApiStep("GET /projects", HTTP_200_OK, Raised(fault, Result(answer.err, db)))

get_project ==
    \E project_id \in Ids, fault \in Faults :
        ApiStep("GET /projects/{project_id}", HTTP_200_OK,
                Raised(fault, Result(ProjectService_get_project(db, project_id).err, db)))

update_project ==
    \E project_id \in Ids, r \in ApiProjectUpdates, commit \in CommitOutcomes, fault \in Faults :
        LET existing == ProjectService_get_project(db, project_id) IN
        ApiStep("PUT /projects/{project_id}", HTTP_200_OK,
                Raised(fault,
                    IF existing.err # OK THEN Result(existing.err, db)
                    ELSE ProjectService_edit_project(
                             db, project_id, OrElse(r.name, existing.value.name),
                             OrElse(OrElse(r.description, existing.value.description), <<>>),
                             commit)))

delete_project ==
    \E project_id \in Ids, commit \in CommitOutcomes, fault \in Faults :
        ApiStep("DELETE /projects/{project_id}", HTTP_204_NO_CONTENT,
                Raised(fault, ProjectService_delete_project(db, project_id, commit)))

create_task ==
    \E project_id \in Ids, r \in ApiTaskCreates, commit \in CommitOutcomes, fault \in Faults :
        ApiStep("POST /projects/{project_id}/tasks", HTTP_201_CREATED,
                Raised(fault, TaskService_create_task(
                                  db, project_id, r.name, OrElse(r.description, <<>>),
                                  r.status, r.deadline, today, commit)))

list_tasks ==
    \E project_id \in Ids, fault \in Faults :
        \E answer \in TaskService_list_tasks(db, project_id) :
            ApiStep("GET /projects/{project_id}/tasks", HTTP_200_OK,
                    Raised(fault, Result(answer.err, db)))

get_task ==
    \E project_id \in Ids, task_id \in Ids, fault \in Faults :
        ApiStep("GET /projects/{project_id}/tasks/{task_id}", HTTP_200_OK,
                Raised(fault, Result(TaskService_get_task(db, project_id, task_id).err, db)))

update_task ==
    \E project_id \in Ids, task_id \in Ids, r \in ApiTaskUpdates :
      \E commit \in CommitOutcomes, fault \in Faults :
        LET existing == TaskService_get_task(db, project_id, task_id) IN
        ApiStep("PUT /projects/{project_id}/tasks/{task_id}", HTTP_200_OK,
                Raised(fault,
                    IF existing.err # OK THEN Result(existing.err, db)
                    ELSE TaskService_edit_task(
                             db, project_id, task_id,
                             OrElse(r.name, existing.value.name),
                             OrElse(OrElse(r.description, existing.value.description), <<>>),
                             OrElse(r.status, existing.value.status),
                             IF r.deadline # NONE THEN r.deadline
                             ELSE IF existing.value.deadline # NoDate
                                  THEN isoformat(existing.value.deadline) ELSE NONE,
                             today, commit)))

update_task_status ==
    \E project_id \in Ids, task_id \in Ids, st \in ApiStatuses :
      \E commit \in CommitOutcomes, fault \in Faults :
        ApiStep("PATCH /projects/{project_id}/tasks/{task_id}/status", HTTP_200_OK,
                Raised(fault, TaskService_edit_task_status(db, project_id, task_id, st, commit)))

delete_task ==
    \E project_id \in Ids, task_id \in Ids, commit \in CommitOutcomes, fault \in Faults :
        ApiStep("DELETE /projects/{project_id}/tasks/{task_id}", HTTP_204_NO_CONTENT,
                Raised(fault, TaskService_delete_task(db, project_id, task_id, commit)))

\* The caller has received the entity or caught the error.
Return ==
    /\ last # Idle
    /\ last' = Idle
    /\ response' = NoResponse
    /\ UNCHANGED <<layer, projects, db, today, others>>

\* Project-centred specification; a commit may fail.
Next ==
    \/ MemCreateProject(ProjectRequests)
    \/ MemEditProject(ProjectRequests)
    \/ MemDeleteProject
    \/ MemCreateTask(PlainTaskRequests)
    \/ MemEditTask(PlainTaskRequests)
    \/ MemEditTaskStatus(PlainStatuses)
    \/ MemDeleteTask
    \/ DbCreateProject(ProjectRequests, CommitOutcomes, {0})
    \/ DbEditProject(ProjectRequests, CommitOutcomes)
    \/ DbDeleteProject(CommitOutcomes)
    \/ DbCreateTask(PlainTaskRequests, CommitOutcomes, {0})
    \/ DbEditTask(PlainTaskRequests, CommitOutcomes)
    \/ DbEditTaskStatus(PlainStatuses, CommitOutcomes)
    \/ DbDeleteTask(CommitOutcomes)
    \/ Reads
    \/ Return

Spec == Init /\ [][Next]_vars

\* Task-centred specification: the mutating operations; commits succeed.
NextTasks ==
    \/ MemCreateProject(OneProjectRequests)
    \/ MemEditProject(OneProjectRequests)
    \/ MemDeleteProject
    \/ MemCreateTask(NamedTaskCreateRequests)
    \/ MemEditTask(NamedTaskRequests)
    \/ MemEditTaskStatus(NormalStatuses)
    \/ MemDeleteTask
    \/ DbCreateProject(PlainProjectRequests, {COMMIT_OK}, {0})
    \/ DbEditProject(PlainProjectRequests, {COMMIT_OK})
    \/ DbDeleteProject({COMMIT_OK})
    \/ DbCreateTask(NamedTaskCreateRequests, {COMMIT_OK}, {0})
    \/ DbEditTask(NamedTaskRequests, {COMMIT_OK})
    \/ DbEditTaskStatus(NormalStatuses, {COMMIT_OK})
    \/ DbDeleteTask({COMMIT_OK})
    \/ Return

SpecTasks == Init /\ [][NextTasks]_vars

\* Status-centred specification; commits succeed.
NextStatus ==
    \/ MemCreateProject(OneProjectRequests)
    \/ MemEditProject(OneProjectRequests)
    \/ MemDeleteProject
    \/ MemCreateTask(StatusTaskRequests)
    \/ MemEditTask(StatusTaskRequests)
    \/ MemEditTaskStatus(StatusTexts)
    \/ MemDeleteTask
    \/ DbCreateProject(OneProjectRequests, {COMMIT_OK}, {0})
    \/ DbEditProject(OneProjectRequests, {COMMIT_OK})
    \/ DbDeleteProject({COMMIT_OK})
    \/ DbCreateTask(StatusTaskRequests, {COMMIT_OK}, {0})
    \/ DbEditTask(StatusTaskRequests, {COMMIT_OK})
    \/ DbEditTaskStatus(StatusTexts, {COMMIT_OK})
    \/ DbDeleteTask({COMMIT_OK})
    \/ Reads
    \/ Return

SpecStatus == Init /\ [][NextStatus]_vars


\* Ref-centred specification; commits succeed.
NextRefs ==
    \/ MemCreateProject(RefProjectRequests)
    \/ MemEditProject(OneProjectRequests)
    \/ MemDeleteProject
    \/ MemCreateTask(RefTaskRequests)
    \/ MemEditTask(PlainTaskRequests)
    \/ MemEditTaskStatus(NormalStatuses)
    \/ MemDeleteTask
    \/ DbCreateProject(RefProjectRequests, {COMMIT_OK}, {0})
    \/ DbEditProject(OneProjectRequests, {COMMIT_OK})
    \/ DbDeleteProject({COMMIT_OK})
    \/ DbCreateTask(RefTaskRequests, {COMMIT_OK}, {0})
    \/ DbEditTask(PlainTaskRequests, {COMMIT_OK})
    \/ DbEditTaskStatus(NormalStatuses, {COMMIT_OK})
    \/ DbDeleteTask({COMMIT_OK})
    \/ Reads
    \/ Return

SpecRefs == Init /\ [][NextRefs]_vars

\* Transition-centred specification: tasks with and without a deadline change
\* status, days pass and the autoclose job runs; commits succeed.
CloseTaskRequests ==
    {TaskRequest(NameA, DescShort, TODO, DeadlineNone),
     TaskRequest(NameB, DescShort, DOING, DeadlineToday)}
CloseStatuses == {TODO, DOING, DONE}

NextClose ==
    \/ MemCreateProject(RefProjectRequests)
    \/ MemCreateTask(CloseTaskRequests)
    \/ MemEditTaskStatus(CloseStatuses)
    \/ DbCreateProject(RefProjectRequests, {COMMIT_OK}, {0})
    \/ DbCreateTask(CloseTaskRequests, {COMMIT_OK}, {0})
    \/ DbEditTaskStatus(CloseStatuses, {COMMIT_OK})
    \/ DbAutoclose({COMMIT_OK})
    \/ Midnight
    \/ Return

SpecClose == Init /\ [][NextClose]_vars

\* API-centred specification: requests reach the endpoints, commits may fail,
\* a day may pass.
NextApi ==
    \/ get_todo_service
    \/ create_project
    \/ list_projects
    \/ get_project
    \/ update_project
    \/ delete_project
    \/ create_task
    \/ list_tasks
    \/ get_task
    \/ update_task
    \/ update_task_status
    \/ delete_task
    \/ Midnight
    \/ Return

SpecApi == Init /\ [][NextApi]_vars

\* Order-centred specification: entities come and go, time passes between
\* inserts, and the listings are read.
NextOrder ==
    \/ MemCreateProject(RefProjectRequests)
    \/ MemDeleteProject
    \/ MemCreateTask(RefTaskRequests)
    \/ MemDeleteTask
    \/ DbCreateProject(RefProjectRequests, {COMMIT_OK}, {0, 1})
    \/ DbDeleteProject({COMMIT_OK})
    \/ DbCreateTask(RefTaskRequests, {COMMIT_OK}, {0, 1})
    \/ DbDeleteTask({COMMIT_OK})
    \/ MemListProjects
    \/ MemListTasks
    \/ DbListProjects
    \/ DbListTasks
    \/ DbListAllTasks
    \/ Return

SpecOrder == Init /\ [][NextOrder]_vars


\* ------------------------------------------------------- the live entities
\* The refs of the live projects: list indexes in memory, primary keys in the database.
LiveProjectRefs ==
    IF layer = MEM THEN 0..(Len(projects) - 1)
    ELSE {db.projects[i].id : i \in 1..Len(db.projects)}

\* The live projects in storage order.
LiveProjects == IF layer = MEM THEN projects ELSE db.projects

\* The tasks owned by the project a live ref addresses, in storage order.
TasksOf(ref) ==
    IF layer = MEM THEN projects[ref + 1].tasks
    ELSE SelectSeq(db.tasks, LAMBDA row : row.project_id = ref)

\* The refs of the tasks a live project owns: list indexes in memory, primary
\* keys in the database.
LiveTaskRefs(ref) ==
    IF layer = MEM THEN 0..(Len(projects[ref + 1].tasks) - 1)
    ELSE {db.tasks[i].id : i \in {k \in 1..Len(db.tasks) : db.tasks[k].project_id = ref}}

\* The project a live ref addresses.
ProjectAt(ref) ==
    IF layer = MEM THEN projects[ref + 1]
    ELSE db.projects[CHOOSE i \in 1..Len(db.projects) : db.projects[i].id = ref]

\* The task a live task ref addresses.
TaskAt(ref, task_ref) ==
    IF layer = MEM THEN projects[ref + 1].tasks[task_ref + 1]
    ELSE db.tasks[CHOOSE i \in 1..Len(db.tasks) : db.tasks[i].id = task_ref]

\* The whole store of the running layer.
Store == IF layer = MEM THEN projects ELSE db

\* The service operations of the running layer, applied to the current store.
CreateProject(r, commit) ==
    IF layer = MEM THEN TodoService_create_project(projects, r.name, r.description)
    ELSE ProjectService_create_project(db, r.name, r.description, commit)

EditProject(ref, r, commit) ==
    IF layer = MEM THEN TodoService_edit_project(projects, ref, r.name, r.description)
    ELSE ProjectService_edit_project(db, ref, r.name, r.description, commit)

CreateTask(ref, r, commit) ==
    IF layer = MEM
    THEN TodoService_create_task(projects, ref, r.name, r.description, r.status, r.deadline, today)
    ELSE TaskService_create_task(db, ref, r.name, r.description, r.status, r.deadline, today, commit)

EditTask(ref, task_ref, r, commit) ==
    IF layer = MEM
    THEN TodoService_edit_task(projects, ref, task_ref, r.name, r.description, r.status, r.deadline)
    ELSE TaskService_edit_task(db, ref, task_ref, r.name, r.description, r.status, r.deadline, today, commit)

\* The reads of the running layer on a store; a listing is the set of the
\* answers it may give.
GetProject(store, ref) ==
    IF layer = MEM THEN TodoService_get_project_or_raise(store, ref)
    ELSE ProjectService_get_project(store, ref)

ListProjects(store) ==
    IF layer = MEM THEN {TodoService_list_projects(store)}
    ELSE ProjectService_list_projects(store)

ListTasks(store, ref) ==
    IF layer = MEM THEN {TodoService_list_tasks(store, ref)}
    ELSE TaskService_list_tasks(store, ref)

GetTask(store, ref, task_ref) ==
    IF layer = MEM THEN TodoService_get_task_or_raise(store, ref, task_ref)
    ELSE TaskService_get_task(store, ref, task_ref)

DeleteProject(ref, commit) ==
    IF layer = MEM THEN TodoService_delete_project(projects, ref)
    ELSE ProjectService_delete_project(db, ref, commit)

DeleteTask(ref, task_ref, commit) ==
    IF layer = MEM THEN TodoService_delete_task(projects, ref, task_ref)
    ELSE TaskService_delete_task(db, ref, task_ref, commit)

EditTaskStatus(ref, task_ref, status, commit) ==
    IF layer = MEM THEN TodoService_edit_task_status(projects, ref, task_ref, status)
    ELSE TaskService_edit_task_status(db, ref, task_ref, status, commit)

\* Requests whose fields pass field validation.
ValidProjectRequest(r) ==
    /\ validate_project_name(r.name) = OK
    /\ validate_project_description(r.description) = OK

ValidTaskRequest(r) ==
    /\ validate_task_name(r.name) = OK
    /\ validate_task_description(r.description) = OK
    /\ validate_task_status(r.status)[1] = OK
    /\ validate_task_deadline(r.deadline, today) = OK

Did(op, err) == last = [op |-> op, err |-> err]

\* --------------------------------------------------------------- claims
\* C1: after any sequence of service calls, successful or failing, the number
\* of live projects never exceeds MAX_PROJECTS.
C1_ProjectCountWithinLimit == Len(LiveProjects) <= MAX_NUMBER_OF_PROJECT

\* A create has filled the store to the limit.
C1_Witness ==
    /\ Did("createProject", OK)
    /\ Len(LiveProjects) = MAX_NUMBER_OF_PROJECT

\* C2: after any sequence of service calls, no live project owns more than
\* MAX_TASKS_PER_PROJECT tasks.
C2_TaskCountWithinLimit ==
    \A ref \in LiveProjectRefs : Len(TasksOf(ref)) <= MAX_NUMBER_OF_TASK

\* A create has filled a project to the limit.
C2_Witness ==
    /\ Did("createTask", OK)
    /\ \E ref \in LiveProjectRefs : Len(TasksOf(ref)) = MAX_NUMBER_OF_TASK

\* C3: in every reachable state no two distinct live projects have exactly
\* the same name, whatever createProject, editProject and deleteProject did.
C3_ProjectNamesUnique ==
    \A i, j \in 1..Len(LiveProjects) :
        LiveProjects[i].name = LiveProjects[j].name => i = j

\* C4: in every reachable state no two distinct tasks of one project have
\* exactly the same name, whatever createTask, editTask, editTaskStatus and
\* deleteTask did.
C4_SiblingTaskNamesUnique ==
    \A ref \in LiveProjectRefs :
        \A i, j \in 1..Len(TasksOf(ref)) :
            TasksOf(ref)[i].name = TasksOf(ref)[j].name => i = j

\* C5: in every reachable state every stored task's status is one of todo,
\* doing, done, whatever status text createTask, editTask and editTaskStatus
\* were given.
C5_StoredStatusAllowed ==
    \A ref \in LiveProjectRefs :
        \A i \in 1..Len(TasksOf(ref)) : TasksOf(ref)[i].status \in AllowedStatus

\* C6: in every reachable state every live project's name has between 1 and
\* 30 words and its description at most 150 words.
C6_ProjectFieldsWithinLimits ==
    \A i \in 1..Len(LiveProjects) :
        /\ WordCount(LiveProjects[i].name) >= 1
        /\ WordCount(LiveProjects[i].name) <= MAX_NAME_WORDS
        /\ WordCount(LiveProjects[i].description) <= MAX_DESCRIPTION_WORDS

\* C7: when the project count equals MAX_PROJECTS, createProject fails with
\* ProjectLimitError and leaves the store unchanged.  Stated for the requests
\* whose name and description pass field validation, the claim's most
\* favourable reading, since both layers validate the fields first.
C7_CreateAtLimitIsLimitError ==
    (last = Idle /\ Len(LiveProjects) = MAX_NUMBER_OF_PROJECT) =>
        \A r \in ProjectRequests, commit \in CommitOutcomes :
            ValidProjectRequest(r) =>
                /\ CreateProject(r, commit).err = ProjectLimitError
                /\ CreateProject(r, commit).store = Store

\* Valid task fields: every accepted spelling of a status and of a deadline.
ValidTaskFields ==
    {TaskRequest(n, DescShort, st, dl) :
        n \in TaskNames, st \in {NONE, TODO, StatusUpper},
        dl \in {DeadlineNone, DeadlineToday, DeadlineFuturePadded}}

\* C8: createTask with valid fields and a fresh name into a live project that
\* already holds MAX_TASKS_PER_PROJECT tasks fails with TaskLimitError and
\* changes nothing, that project's task list included.
C8_CreateTaskAtLimitIsLimitError ==
    last = Idle =>
        \A ref \in LiveProjectRefs :
            Len(TasksOf(ref)) = MAX_NUMBER_OF_TASK =>
                \A r \in ValidTaskFields, commit \in CommitOutcomes :
                    (ValidTaskRequest(r) /\ ~NameIn(r.name, TasksOf(ref))) =>
                        /\ CreateTask(ref, r, commit).err = TaskLimitError
                        /\ CreateTask(ref, r, commit).store = Store

\* A create was refused for the limit alone: the in-memory service reports the
\* limit only for valid fields and a fresh name.
C8_Witness ==
    /\ layer = MEM
    /\ Did("createTask", TaskLimitError)
    /\ \E ref \in LiveProjectRefs : Len(TasksOf(ref)) = MAX_NUMBER_OF_TASK

\* Another live project than ref bears the name.
OtherProjectNamed(ref, name) ==
    \E other \in LiveProjectRefs \ {ref} : ProjectAt(other).name = name

\* C9: with valid fields and the project limit not reached, createProject
\* fails with DuplicateProjectError exactly when a live project has the name;
\* editProject with valid fields on a live project fails with
\* DuplicateProjectError exactly when another project has the new name.
C9_DuplicateProjectExactly ==
    last = Idle =>
        \A r \in ProjectRequests, commit \in CommitOutcomes :
            ValidProjectRequest(r) =>
                /\ Len(LiveProjects) < MAX_NUMBER_OF_PROJECT =>
                       (CreateProject(r, commit).err = DuplicateProjectError
                            <=> NameIn(r.name, LiveProjects))
                /\ \A ref \in LiveProjectRefs :
                       EditProject(ref, r, commit).err = DuplicateProjectError
                           <=> OtherProjectNamed(ref, r.name)

\* Another task of project ref than task_ref bears the name.
OtherTaskNamed(ref, task_ref, name) ==
    \E other \in LiveTaskRefs(ref) \ {task_ref} : TaskAt(ref, other).name = name

\* C10: with valid fields, createTask fails with DuplicateTaskError exactly
\* when a task of the same project has the name, and editTask exactly when a
\* different task of the same project has it; tasks of other projects never
\* count.  createTask is stated for projects below their task limit, the
\* claim's most favourable reading.
C10_DuplicateTaskExactly ==
    last = Idle =>
        \A ref \in LiveProjectRefs, r \in NamedTaskRequests, commit \in CommitOutcomes :
            ValidTaskRequest(r) =>
                /\ Len(TasksOf(ref)) < MAX_NUMBER_OF_TASK =>
                       (CreateTask(ref, r, commit).err = DuplicateTaskError
                            <=> NameIn(r.name, TasksOf(ref)))
                /\ \A task_ref \in LiveTaskRefs(ref) :
                       EditTask(ref, task_ref, r, commit).err = DuplicateTaskError
                           <=> OtherTaskNamed(ref, task_ref, r.name)

\* Every ref a caller may offer: list indexes in memory, primary keys in the database.
ProjectRefs == IF layer = MEM THEN ProjectIndexes ELSE Ids

\* Where the project at ref is found once the project at deleted is gone:
\* list indexes above the deleted one move down by one, primary keys stay.
RefAfterDelete(ref, deleted) ==
    IF layer = MEM /\ ref > deleted THEN ref - 1 ELSE ref

\* The refs at which a deleted project stays unaddressable: every primary
\* key, and the last list index.
StaysGone(ref) == layer = DB \/ ref = Len(projects) - 1

\* No listing of the store hands back a task of project p: each listing that
\* succeeds is the unchanged listing of another project, and list_all_tasks
\* has no row of p.
NoTaskOf(p, store) ==
    /\ \A r \in ProjectRefs :
           (\E a \in ListTasks(store, r) : a.err = OK) =>
               \E q \in LiveProjectRefs \ {p} :
                   /\ r = RefAfterDelete(q, p)
                   /\ ListTasks(store, r) = ListTasks(Store, q)
    /\ layer = DB =>
           \A a \in TaskService_list_all_tasks(store) :
               \A i \in 1..Len(a.value) : a.value[i].project_id # p

\* C11 as stated: after a successful deleteProject(p), listTasks(p) and
\* getProject(p) fail with ProjectNotFoundError and no listing returns a
\* task p owned, whatever other projects exist.
C11_DeletedProjectGone ==
    last = Idle =>
        \A p \in LiveProjectRefs :
            LET res == DeleteProject(p, COMMIT_OK) IN
            /\ res.err = OK
            /\ GetProject(res.store, p).err = ProjectNotFoundError
            /\ \A a \in ListTasks(res.store, p) : a.err = ProjectNotFoundError
            /\ NoTaskOf(p, res.store)

\* The state right after a delete, amended: p is unaddressable where refs
\* are primary keys or p was the last list index.
C11_AfterDelete ==
    last = Idle =>
        \A p \in LiveProjectRefs :
            LET res == DeleteProject(p, COMMIT_OK) IN
            /\ res.err = OK
            /\ StaysGone(p) =>
                   /\ GetProject(res.store, p).err = ProjectNotFoundError
                   /\ \A a \in ListTasks(res.store, p) : a.err = ProjectNotFoundError
            /\ NoTaskOf(p, res.store)

\* The later states, until a project is created: a ref that addresses no
\* project keeps addressing none, and a task row that is gone stays gone.
C11_UntilCreate ==
    last'.op # "createProject" =>
        /\ \A r \in ProjectRefs :
               GetProject(Store, r).err = ProjectNotFoundError =>
                   /\ GetProject(Store', r).err = ProjectNotFoundError
                   /\ \A a \in ListTasks(Store', r) : a.err = ProjectNotFoundError
        /\ layer = DB =>
               \A id \in 1..db.task_seq :
                   (\A i \in 1..Len(db.tasks) : db.tasks[i].id # id) =>
                       (\A i \in 1..Len(db'.tasks) : db'.tasks[i].id # id)

\* C11 (amended): after a successful deleteProject(p) no listing returns a
\* task p owned, and until a new project is created listTasks(p) and
\* getProject(p) fail with ProjectNotFoundError where refs are primary keys
\* or p was the last list index; a list index below the last one addresses
\* the project that followed p.
C11_DeletedProjectGoneById == []C11_AfterDelete /\ [][C11_UntilCreate]_vars

\* A project was just deleted while another one, owning a task, stays.
C11_Witness ==
    /\ Did("deleteProject", OK)
    /\ \E ref \in LiveProjectRefs : Len(TasksOf(ref)) > 0
    /\ layer = DB => \E id \in 1..db.task_seq : \A i \in 1..Len(db.tasks) : db.tasks[i].id # id

\* Two answers hand back the same project: its fields agree (a project's
\* own task list may have lost the deleted task).
SameProject(before, after) ==
    /\ before.err = OK
    /\ after.err = OK
    /\ after.value.name = before.value.name
    /\ after.value.description = before.value.description
    /\ layer = DB => after.value.id = before.value.id

\* C12 as stated: a ref of a live project addresses the same project after
\* any other project or any task is deleted, and a task ref the same task
\* after another task of the project is deleted.
C12_RefsStable ==
    last = Idle =>
        /\ \A r \in LiveProjectRefs, other \in LiveProjectRefs :
               other # r =>
                   LET res == DeleteProject(other, COMMIT_OK) IN
                   res.err = OK /\ GetProject(res.store, r) = GetProject(Store, r)
        /\ \A q \in LiveProjectRefs :
               \A t \in LiveTaskRefs(q) :
                   LET res == DeleteTask(q, t, COMMIT_OK) IN
                   /\ res.err = OK
                   /\ \A r \in LiveProjectRefs :
                          SameProject(GetProject(Store, r), GetProject(res.store, r))
                   /\ \A kept \in LiveTaskRefs(q) \ {t} :
                          GetTask(res.store, q, kept) = GetTask(Store, q, kept)

\* C12 (amended): the same, where refs are primary keys; where refs are list
\* indexes, for the refs below the deleted index (those above it move down
\* by one).
C12_RefsStableBelow ==
    last = Idle =>
        /\ \A r \in LiveProjectRefs, other \in LiveProjectRefs :
               (other # r /\ (layer = DB \/ r < other)) =>
                   LET res == DeleteProject(other, COMMIT_OK) IN
                   res.err = OK /\ GetProject(res.store, r) = GetProject(Store, r)
        /\ \A q \in LiveProjectRefs :
               \A t \in LiveTaskRefs(q) :
                   LET res == DeleteTask(q, t, COMMIT_OK) IN
                   /\ res.err = OK
                   /\ \A r \in LiveProjectRefs :
                          SameProject(GetProject(Store, r), GetProject(res.store, r))
                   /\ \A kept \in LiveTaskRefs(q) \ {t} :
                          (layer = DB \/ kept < t) =>
                              GetTask(res.store, q, kept) = GetTask(Store, q, kept)

\* A task was just deleted from a project that keeps another task, while a
\* second project is live.
C12_Witness ==
    /\ Did("deleteTask", OK)
    /\ Len(LiveProjects) >= 2
    /\ \E ref \in LiveProjectRefs : Len(TasksOf(ref)) >= 1

\* Every task ref a caller may offer.
TaskRefs == IF layer = MEM THEN TaskIndexes ELSE Ids

\* Project p is live and owns a task addressed by t.
Owns(p, t) == p \in LiveProjectRefs /\ t \in LiveTaskRefs(p)

\* Edits offered through a wrong ref: valid and invalid fields alike.
AnyTaskFields ==
    {TaskRequest(n, DescShort, st, dl) :
        n \in {NameA, NameB, NameEmpty}, st \in {TODO, StatusBlocked},
        dl \in {DeadlineNone, DeadlinePast}}

\* getTask, editTask and editTaskStatus through a pair that addresses no
\* task of the project fail with TaskNotFoundError and change nothing.
WrongRefRefused(p, t) ==
    /\ GetTask(Store, p, t).err = TaskNotFoundError
    /\ \A r \in AnyTaskFields, commit \in CommitOutcomes :
           EditTask(p, t, r, commit) = Result(TaskNotFoundError, Store)
    /\ \A st \in {TODO, StatusBlocked}, commit \in CommitOutcomes :
           EditTaskStatus(p, t, st, commit) = Result(TaskNotFoundError, Store)

C14_DeadRefIsProjectNotFound ==
    last = Idle =>
        \A ref \in ProjectRefs \ LiveProjectRefs :
            /\ GetProject(Store, ref).err = ProjectNotFoundError
            /\ \A answer \in ListTasks(Store, ref) : answer.err = ProjectNotFoundError
            /\ \A commit \in CommitOutcomes :
                /\ DeleteProject(ref, commit) = Result(ProjectNotFoundError, Store)
                /\ \A r \in ProjectRequests :
                       ValidProjectRequest(r) =>
                           EditProject(ref, r, commit) = Result(ProjectNotFoundError, Store)
                /\ \A r \in RefTaskRequests :
                       ValidTaskRequest(r) =>
                           CreateTask(ref, r, commit) = Result(ProjectNotFoundError, Store)

\* A listing of tasks was refused for a dead ref while a project holding a
\* task is live.
C14_Witness ==
    /\ Did("listTasks", ProjectNotFoundError)
    /\ \E ref \in LiveProjectRefs : Len(TasksOf(ref)) >= 1

\* The status a store holds for the task a live pair addresses.
StatusIn(store, p, t) ==
    IF layer = MEM THEN store[p + 1].tasks[t + 1].status
    ELSE store.tasks[CHOOSE i \in 1..Len(store.tasks) : store.tasks[i].id = t].status

\* Store `after` is store `before` with nothing but the status of the task
\* addressed by (p, t) replaced.
OnlyStatusChanged(before, after, p, t) ==
    IF layer = MEM
    THEN /\ Len(after) = Len(before)
         /\ Len(after[p + 1].tasks) = Len(before[p + 1].tasks)
         /\ after = [before EXCEPT ![p + 1].tasks[t + 1].status = StatusIn(after, p, t)]
    ELSE /\ Len(after.tasks) = Len(before.tasks)
         /\ after = [before EXCEPT !.tasks =
                        [i \in 1..Len(@) |->
                            IF @[i].id = t
                            THEN [@[i] EXCEPT !.status = after.tasks[i].status]
                            ELSE @[i]]]

\* C15: a successful editTaskStatus changes only the status of the addressed
\* task: its name, description, deadline and owner, every other task and
\* every project stay as they were.
C15_EditStatusFrame ==
    last = Idle =>
        \A p \in ProjectRefs, t \in TaskRefs, st \in StatusTexts, commit \in CommitOutcomes :
            LET res == EditTaskStatus(p, t, st, commit) IN
            res.err = OK => Owns(p, t) /\ OnlyStatusChanged(Store, res.store, p, t)

\* A status edit succeeded with two projects live, one of them holding two
\* tasks, one task carrying a deadline.
C15_Witness ==
    /\ Did("editTaskStatus", OK)
    /\ Len(LiveProjects) >= 2
    /\ \E ref \in LiveProjectRefs :
           /\ Len(TasksOf(ref)) >= 2
           /\ \E i \in 1..Len(TasksOf(ref)) : TasksOf(ref)[i].deadline \notin {NONE, NoDate}

\* C16: status transitions are unconstrained: from whatever status a task
\* holds (closed by the autoclose job or not), editTaskStatus to todo, doing
\* or done succeeds and leaves the task with that status.
C16_TransitionsUnconstrained ==
    last = Idle =>
        \A p \in LiveProjectRefs :
            \A t \in LiveTaskRefs(p), st \in {TODO, DOING, DONE} :
                LET res == EditTaskStatus(p, t, st, COMMIT_OK) IN
                res.err = OK /\ StatusIn(res.store, p, t) = st

\* A task the autoclose job closed was set back to todo.
C16_Witness ==
    /\ layer = DB
    /\ Did("editTaskStatus", OK)
    /\ \E i \in 1..Len(db.tasks) : db.tasks[i].closed_at # NoDate /\ db.tasks[i].status = TODO

\* Every kind of deadline text a caller may pass.
DeadlineTexts ==
    {DeadlineNone, DeadlineEmpty, DeadlinePast, DeadlineToday, DeadlineFuture,
     DeadlineFuturePadded, DeadlineNoSuchDay, DeadlineText, DeadlineShortDay}

\* The text is a calendar date written YYYY-MM-DD: four digits, two, two.
IsoDate(text) ==
    /\ Len(text) = 10
    /\ text[5] = "-" /\ text[8] = "-"
    /\ StrpDate(text)[1]

\* A deadline the claim says is refused: given, and either not a date in
\* YYYY-MM-DD form or a date before today.
BadDeadline(deadline, now) ==
    /\ deadline # NONE /\ Strip(deadline) # <<>>
    /\ \/ ~IsoDate(Strip(deadline))
       \/ DateLT(StrpDate(Strip(deadline))[2], now)

\* C17: createTask and editTask with otherwise valid fields fail with
\* ValidationError exactly when the deadline is given and is not a date in
\* YYYY-MM-DD form or is earlier than today; a deadline of today, a later day
\* or a blank one is not refused.
C17_DeadlineValidated ==
    last = Idle =>
        \A p \in LiveProjectRefs, deadline \in DeadlineTexts :
            LET r == TaskRequest(NameA, DescShort, TODO, deadline) IN
            /\ CreateTask(p, r, COMMIT_OK).err = ValidationError
                   <=> BadDeadline(deadline, today)
            /\ \A t \in LiveTaskRefs(p) :
                   EditTask(p, t, r, COMMIT_OK).err = ValidationError
                       <=> BadDeadline(deadline, today)

\* The outcome of createProject when the checks run in the order field
\* validation, capacity, uniqueness.
InOrderCreateProject(r) ==
    IF ~ValidProjectRequest(r) THEN ValidationError
    ELSE IF Len(LiveProjects) >= MAX_NUMBER_OF_PROJECT THEN ProjectLimitError
    ELSE IF \E ref \in LiveProjectRefs : ProjectAt(ref).name = r.name
         THEN DuplicateProjectError
    ELSE OK

\* The outcome of createTask when the checks run in the order field
\* validation, parent existence, capacity, uniqueness.
InOrderCreateTask(ref, r) ==
    IF ~ValidTaskRequest(r) THEN ValidationError
    ELSE IF ref \notin LiveProjectRefs THEN ProjectNotFoundError
    ELSE IF Len(TasksOf(ref)) >= MAX_NUMBER_OF_TASK THEN TaskLimitError
    ELSE IF \E t \in LiveTaskRefs(ref) : TaskAt(ref, t).name = r.name
         THEN DuplicateTaskError
    ELSE OK

\* C18: createProject and createTask run their checks in the fixed order field
\* validation, parent existence, capacity, uniqueness, so the first failing
\* check names the error (a duplicate name at the limit is a limit error), and
\* a refused create leaves the store as it was.
C18_ChecksInOrder ==
    last = Idle =>
        /\ \A r \in ProjectRequests :
               /\ CreateProject(r, COMMIT_OK).err = InOrderCreateProject(r)
               /\ \A commit \in CommitOutcomes :
                      CreateProject(r, commit).err # OK =>
                          CreateProject(r, commit).store = Store
        /\ \A ref \in ProjectRefs, r \in NamedTaskCreateRequests :
               /\ CreateTask(ref, r, COMMIT_OK).err = InOrderCreateTask(ref, r)
               /\ \A commit \in CommitOutcomes :
                      CreateTask(ref, r, commit).err # OK =>
                          CreateTask(ref, r, commit).store = Store

\* The items of a sequence.
Items(seq) == {seq[i] : i \in 1..Len(seq)}

\* A listing of the stored rows as the running layer orders it: in memory the
\* stored sequence itself (insertion order); from the database the same rows
\* with the later insert (the greater id) first, except among rows created at
\* the same instant.
ListedNewestFirst(listing, stored) ==
    IF layer = MEM THEN listing = stored
    ELSE /\ Len(listing) = Len(stored)
         /\ Items(listing) = Items(stored)
         /\ \A i, j \in 1..Len(listing) :
                i < j => \/ listing[i].id > listing[j].id
                         \/ listing[i].created_at = listing[j].created_at

ExceptionClasses ==
    {ValidationError, ProjectNotFoundError, TaskNotFoundError, DuplicateProjectError,
     DuplicateTaskError, ProjectLimitError, TaskLimitError, DatabaseOperationError,
     DatabaseConnectionError, RecordNotFoundError, RepositoryError, ProjectError,
     TaskError, TodoError, TypeError, Exception}
HandlersAgree ==
    \A exc \in ExceptionClasses :
        exception_handler(exc) = _error_response(exc, HTTP_500_INTERNAL_SERVER_ERROR)

\* C20: the API answers every error raised in a request by its kind:
\* ValidationError and the limit errors with 400, the duplicate errors with
\* 409, the not-found errors with 404, DatabaseOperationError and every other
\* exception with 500; no error is answered with a success status.  The
\* application's own exception handlers give the same answers.
C20_ErrorsMappedByKind ==
    /\ HandlersAgree
    /\ response # NoResponse =>
           /\ last.err \in {ValidationError, ProjectLimitError, TaskLimitError}
                  => response[1] = 400
           /\ last.err \in {DuplicateProjectError, DuplicateTaskError} => response[1] = 409
           /\ last.err \in {ProjectNotFoundError, TaskNotFoundError} => response[1] = 404
           /\ last.err \notin {OK, ValidationError, ProjectLimitError, TaskLimitError,
                               DuplicateProjectError, DuplicateTaskError,
                               ProjectNotFoundError, TaskNotFoundError} => response[1] = 500
           /\ last.err # OK => response[1] \notin 200..299

\* A create into a full project was answered 400.
C20_Witness ==
    /\ last = [op |-> "POST /projects/{project_id}/tasks", err |-> TaskLimitError]
    /\ response = <<400>>

\* ------------------------------------------------------ configuration runs
\* The process starts under some environment; the configuration modules are
\* imported once each, in either order.
InitConfig ==
    /\ layer = DB
    /\ projects = <<>>
    /\ db = EmptyDb
    /\ today = StartDate
    /\ last = Idle
    /\ response = NoResponse
    /\ environ \in [EnvNames -> EnvTexts]
    /\ settings = [app |-> NotImported, legacy |-> NotImported]
    /\ sessions = [s \in Sessions |-> NoCall]
    /\ identity = NoObjects
    /\ job = NotRunning
    /\ call = NotCalled
    /\ cli = NotStarted

import_app_config_settings ==
    /\ settings.app = NotImported
    /\ settings' = [settings EXCEPT !.app = app_config_settings(environ)]
    /\ UNCHANGED <<layer, projects, db, today, last, response, environ, sessions, identity, cli, call, job>>

import_config ==
    /\ settings.legacy = NotImported
    /\ settings' = [settings EXCEPT !.legacy = config(environ)]
    /\ UNCHANGED <<layer, projects, db, today, last, response, environ, sessions, identity, cli, call, job>>

NextConfig ==
    \/ import_app_config_settings
    \/ import_config

SpecConfig == InitConfig /\ [][NextConfig]_vars

\* The value a variable configures: its integer when the text parses to one of
\* at least 1, and 0 (no limit is 0) when it is unset or configures nothing.
ConfiguredValue(name) ==
    IF environ[name] # NONE /\ int(environ[name])[1] /\ int(environ[name])[2] >= 1
    THEN int(environ[name])[2]
    ELSE 0

LimitNames == {"MAX_NUMBER_OF_PROJECT", "MAX_NUMBER_OF_TASK"}
DefaultOf(name) == IF name = "MAX_NUMBER_OF_PROJECT" THEN 10 ELSE 50
AliasOf(name) ==
    IF name = "MAX_NUMBER_OF_PROJECT" THEN "PROJECT_OF_NUMBER_MAX" ELSE "TASK_OF_NUMBER_MAX"

Imported == {m \in {"app", "legacy"} : settings[m] # NotImported}

\* C21 (as stated): every effective limit is the value configured under its
\* name when that parses as an integer of at least 1, and the default (10 for
\* projects, 50 for tasks) otherwise.
C21_ConfiguredOrDefault ==
    \A m \in Imported, name \in LimitNames :
        settings[m][name] =
            IF ConfiguredValue(name) # 0 THEN ConfiguredValue(name) ELSE DefaultOf(name)

\* C21 (amended): that holds of app.config.settings; the legacy config module
\* consults the backward-compatible name before it falls back to the default;
\* either way the effective limit is a positive integer.
C21_ConfiguredAliasOrDefault ==
    /\ settings.app # NotImported =>
        \A name \in LimitNames :
            settings.app[name] =
                IF ConfiguredValue(name) # 0 THEN ConfiguredValue(name)
                ELSE DefaultOf(name)
    /\ settings.legacy # NotImported =>
        \A name \in LimitNames :
            settings.legacy[name] =
                IF ConfiguredValue(name) # 0 THEN ConfiguredValue(name)
                ELSE IF ConfiguredValue(AliasOf(name)) # 0
                THEN ConfiguredValue(AliasOf(name))
                ELSE DefaultOf(name)
    /\ \A m \in Imported, name \in LimitNames : settings[m][name] \in Nat \ {0}

\* Both modules are imported under an environment whose preferred project
\* name is set to zero while the backward-compatible one holds a valid value,
\* and whose task limit is not a number.
C21_Witness ==
    /\ Imported = {"app", "legacy"}
    /\ environ["MAX_NUMBER_OF_PROJECT"] = <<"0">>
    /\ environ["PROJECT_OF_NUMBER_MAX"] = <<"3">>
    /\ environ["MAX_NUMBER_OF_TASK"] = <<"a", "b", "c">>
    /\ environ["TASK_OF_NUMBER_MAX"] = NONE
    /\ settings.app["MAX_NUMBER_OF_PROJECT"] = 10
    /\ settings.legacy["MAX_NUMBER_OF_PROJECT"] = 3
    /\ settings.app["MAX_NUMBER_OF_TASK"] = 50

\* ------------------------------------------------- interactive front end
\* app/cli/__main__.py over ProjectService / TaskService on one session.
AtMenu(option, reported) ==
    [at |-> "menu", option |-> option, cause |-> "", reported |-> reported]
Ended(option, cause, reported) ==
    [at |-> "ended", option |-> option, cause |-> cause, reported |-> reported]

\* A query either returns or fails (connection lost, table missing); the
\* repositories re-raise the failure as DatabaseOperationError.
ReadOutcomes == {OK, DatabaseOperationError}

ListedProjectIds == {db.projects[i].id : i \in DOMAIN db.projects}
ListedTaskIds(project_id) ==
    {db.tasks[i].id : i \in {j \in DOMAIN db.tasks : db.tasks[j].project_id = project_id}}

\* main(): the session is opened, the services are built, the welcome is shown.
main ==
    /\ layer = DB
    /\ cli = NotStarted
    /\ cli' = AtMenu(0, OK)
    /\ UNCHANGED <<layer, projects, db, today, last, response, environ, settings, sessions, identity, call, job>>

\* One pass of the while loop.  `listing` is what a call made outside
\* handle_application_error raised (OK: nothing): it leaves the loop for the
\* `except Exception` of main(), which rolls back, displays the error and
\* returns.  `res` is the call made through handle_application_error, which
\* prints the error and hands None back, so that the loop continues.
MenuOption(option, listing, res) ==
    /\ layer = DB
    /\ cli.at = "menu"
    /\ last = Idle
    /\ res.store.project_seq <= MaxIds
    /\ res.store.task_seq <= MaxIds
    /\ IF listing # OK
       THEN db' = db /\ cli' = Ended(option, "error", listing)
       ELSE db' = res.store /\ cli' = AtMenu(option, res.err)
    /\ UNCHANGED <<layer, projects, today, last, response, environ, settings, sessions, identity, call, job>>

\* 1: add a project
main_menu_option_1 ==
    \E r \in RefProjectRequests, commit \in CommitOutcomes :
        MenuOption(1, OK, ProjectService_create_project(db, r.name, r.description, commit))

\* 2: add a task to a listed project
main_menu_option_2 ==
    \E listing \in ReadOutcomes :
        IF listing # OK \/ ListedProjectIds = {} THEN MenuOption(2, listing, Result(OK, db))
        ELSE \E project_id \in ListedProjectIds, r \in RefTaskRequests,
                commit \in CommitOutcomes :
                MenuOption(2, OK, TaskService_create_task(db, project_id, r.name, r.description,
                                                       r.status, r.deadline, today, commit))

\* 3: edit a listed project
main_menu_option_3 ==
    \E listing \in ReadOutcomes :
        IF listing # OK \/ ListedProjectIds = {} THEN MenuOption(3, listing, Result(OK, db))
        ELSE \E project_id \in ListedProjectIds, r \in RefProjectRequests,
                commit \in CommitOutcomes :
                MenuOption(3, OK, ProjectService_edit_project(db, project_id, r.name,
                                                           r.description, commit))

\* 4: edit a listed task of a listed project
main_menu_option_4 ==
    \E projects_listing \in ReadOutcomes :
        IF projects_listing # OK \/ ListedProjectIds = {}
        THEN MenuOption(4, projects_listing, Result(OK, db))
        ELSE \E project_id \in ListedProjectIds, tasks_listing \in ReadOutcomes :
                IF tasks_listing # OK \/ ListedTaskIds(project_id) = {}
                THEN MenuOption(4, tasks_listing, Result(OK, db))
                ELSE \E task_id \in ListedTaskIds(project_id), r \in RefTaskRequests,
                        commit \in CommitOutcomes :
                        MenuOption(4, OK, TaskService_edit_task(db, project_id, task_id, r.name,
                                                             r.description, r.status,
                                                             r.deadline, today, commit))

\* 5: change the status of a listed task
main_menu_option_5 ==
    \E projects_listing \in ReadOutcomes :
        IF projects_listing # OK \/ ListedProjectIds = {}
        THEN MenuOption(5, projects_listing, Result(OK, db))
        ELSE \E project_id \in ListedProjectIds, tasks_listing \in ReadOutcomes :
                IF tasks_listing # OK \/ ListedTaskIds(project_id) = {}
                THEN MenuOption(5, tasks_listing, Result(OK, db))
                ELSE \E task_id \in ListedTaskIds(project_id), st \in {TODO, DONE},
                        commit \in CommitOutcomes :
                        MenuOption(5, OK, TaskService_edit_task_status(db, project_id, task_id,
                                                                    st, commit))

\* 6: delete a listed project, once confirmed
main_menu_option_6 ==
    \E listing \in ReadOutcomes :
        IF listing # OK \/ ListedProjectIds = {} THEN MenuOption(6, listing, Result(OK, db))
        ELSE \E project_id \in ListedProjectIds, confirmed \in BOOLEAN,
                commit \in CommitOutcomes :
                IF ~confirmed THEN MenuOption(6, OK, Result(OK, db))
                ELSE MenuOption(6, OK, ProjectService_delete_project(db, project_id, commit))

\* 7: delete a listed task, once confirmed
main_menu_option_7 ==
    \E projects_listing \in ReadOutcomes :
        IF projects_listing # OK \/ ListedProjectIds = {}
        THEN MenuOption(7, projects_listing, Result(OK, db))
        ELSE \E project_id \in ListedProjectIds, tasks_listing \in ReadOutcomes :
                IF tasks_listing # OK \/ ListedTaskIds(project_id) = {}
                THEN MenuOption(7, tasks_listing, Result(OK, db))
                ELSE \E task_id \in ListedTaskIds(project_id), confirmed \in BOOLEAN,
                        commit \in CommitOutcomes :
                        IF ~confirmed THEN MenuOption(7, OK, Result(OK, db))
                        ELSE MenuOption(7, OK, TaskService_delete_task(db, project_id, task_id,
                                                                    commit))

\* 8: show the projects
main_menu_option_8 ==
    \E listing \in ReadOutcomes : MenuOption(8, listing, Result(OK, db))

\* 9: show all tasks
main_menu_option_9 ==
    \E listing \in ReadOutcomes : MenuOption(9, listing, Result(OK, db))

\* 10: exit
main_menu_option_10 ==
    /\ layer = DB
    /\ cli.at = "menu"
    /\ cli' = Ended(10, "exit", OK)
    /\ UNCHANGED <<layer, projects, db, today, last, response, environ, settings, sessions, identity, call, job>>

\* Ctrl-C at a prompt
KeyboardInterrupt ==
    /\ layer = DB
    /\ cli.at = "menu"
    /\ cli' = Ended(cli.option, "interrupt", OK)
    /\ UNCHANGED <<layer, projects, db, today, last, response, environ, settings, sessions, identity, call, job>>

\* ---- the flat legacy front end (src/__init__.py over src/storage.py)
ValueError == "ValueError"

\* storage.InMemoryStorage.add_project: every refusal is a ValueError.
storage_add_project(ps, project) ==
    IF project.name = NONE \/ project.name = <<>> \/ Strip(project.name) = <<>>
    THEN Result(ValueError, ps)
    ELSE IF Len(Split(Strip(project.name))) > 30 THEN Result(ValueError, ps)
    ELSE IF Len(Split(Strip(project.description))) > 150 THEN Result(ValueError, ps)
    ELSE IF \E i \in DOMAIN ps : ps[i].name = project.name THEN Result(ValueError, ps)
    ELSE IF Len(ps) >= MAX_NUMBER_OF_PROJECT THEN Result(ValueError, ps)
    ELSE Result(OK, Append(ps, project))

\* main(): the store is built and the welcome is shown.
legacy_main ==
    /\ layer = MEM
    /\ cli = NotStarted
    /\ cli' = AtMenu(0, OK)
    /\ UNCHANGED <<layer, projects, db, today, last, response, environ, settings, sessions, identity, call, job>>

\* 1: add a project.  Nothing in main() or around it catches what
\* storage.add_project raises: the traceback ends the program.
legacy_main_menu_option_1 ==
    \E r \in RefProjectRequests :
        LET res == storage_add_project(
                       projects, [name |-> r.name, description |-> r.description,
                                  tasks |-> <<>>])
        IN  /\ layer = MEM
            /\ cli.at = "menu"
            /\ projects' = res.store
            /\ cli' = IF res.err = OK THEN AtMenu(1, OK) ELSE Ended(1, "error", res.err)
            /\ UNCHANGED <<layer, db, today, last, response, environ, settings, sessions, identity, call, job>>

\* 10: exit
legacy_main_menu_option_10 ==
    /\ layer = MEM
    /\ cli.at = "menu"
    /\ cli' = Ended(10, "exit", OK)
    /\ UNCHANGED <<layer, projects, db, today, last, response, environ, settings, sessions, identity, call, job>>

NextCli ==
    \/ main
    \/ main_menu_option_1
    \/ main_menu_option_2
    \/ main_menu_option_3
    \/ main_menu_option_4
    \/ main_menu_option_5
    \/ main_menu_option_6
    \/ main_menu_option_7
    \/ main_menu_option_8
    \/ main_menu_option_9
    \/ main_menu_option_10
    \/ KeyboardInterrupt
    \/ legacy_main
    \/ legacy_main_menu_option_1
    \/ legacy_main_menu_option_10

SpecCli == Init /\ [][NextCli]_vars

\* C22: the menu loop ends only when the user chooses Exit or interrupts the
\* program: whatever a service call raised while an option was handled has
\* been reported with the front end back at the main menu prompt.
C22_LoopEndsOnlyOnExit ==
    cli.at = "ended" => cli.cause \in {"exit", "interrupt"}

\* --------------------------------------------------- concurrent sessions
\* Each caller has its own session; the statements of two calls interleave.
\* A call's reads see what is committed when they run.
ThreeProjectRequests == {ProjectRequest(n, DescShort) : n \in {NameA, NameB, NameC}}

ProjectRepository_create_commit_NoConstraint(d, r) ==
    Result(OK, [d EXCEPT !.projects = Append(@, [id |-> d.project_seq + 1, name |-> r.name,
                                                  description |-> r.description,
                                                  created_at |-> d.now]),
                         !.project_seq = @ + 1])

\* ProjectRepository.create from db.add(project) on: the INSERT meets the rows
\* committed by then; the UNIQUE constraint on projects.name refuses a second
\* row of the name with an IntegrityError, which becomes DuplicateProjectError
\* after the rollback.
ProjectRepository_create_commit(d, r) ==
    IF \E i \in 1..Len(d.projects) : d.projects[i].name = r.name
    THEN Result(DuplicateProjectError, d)
    ELSE Result(OK, [d EXCEPT !.projects = Append(@, [id |-> d.project_seq + 1,
                                                      name |-> r.name,
                                                      description |-> r.description,
                                                      created_at |-> d.now]),
                              !.project_seq = @ + 1])

\* TaskRepository.create from db.add(task) on, with uq_task_project_name.
TaskRepository_create_commit(d, project_id, r) ==
    IF \E i \in 1..Len(d.tasks) :
            d.tasks[i].project_id = project_id /\ d.tasks[i].name = r.name
    THEN Result(DuplicateTaskError, d)
    ELSE Result(OK, [d EXCEPT !.tasks = Append(@, [id |-> d.task_seq + 1,
                                                   project_id |-> project_id,
                                                   name |-> r.name,
                                                   description |-> r.description,
                                                   status |-> validate_task_status(r.status)[2],
                                                   deadline |-> parsed_deadline(r.deadline),
                                                   closed_at |-> NoDate,
                                                   created_at |-> d.now]),
                              !.task_seq = @ + 1])

\* ProjectRepository.create up to the construction of the Project: validation,
\* the count against the limit, exists_by_name.
SessionCreateProject(s, Reqs) ==
    \E r \in Reqs :
        LET checks == ProjectRepository_create(db, r.name, r.description, COMMIT_OK).err IN
        /\ layer = DB
        /\ sessions[s].pc # "pending"
        /\ sessions' = [sessions EXCEPT ![s] =
                IF checks = OK THEN Pending("createProject", NoId, r)
                ELSE Done("createProject", "checked", checks)]
        /\ UNCHANGED <<layer, projects, db, today, last, response, environ, settings, identity, cli, call, job>>

\* TaskRepository.create up to the construction of the Task.
SessionCreateTask(s, Reqs) ==
    \E project_id \in ListedProjectIds, r \in Reqs :
        LET checks == TaskRepository_create(db, project_id, r.name, r.description, r.status,
                                            r.deadline, today, COMMIT_OK).err IN
        /\ layer = DB
        /\ sessions[s].pc # "pending"
        /\ sessions' = [sessions EXCEPT ![s] =
                IF checks = OK THEN Pending("createTask", project_id, r)
                ELSE Done("createTask", "checked", checks)]
        /\ UNCHANGED <<layer, projects, db, today, last, response, environ, settings, identity, cli, call, job>>

\* What the commit of session s does to the database as it is now.
SessionCommitResult(s) ==
    IF sessions[s].op = "createProject"
    THEN ProjectRepository_create_commit(db, sessions[s].r)
    ELSE TaskRepository_create_commit(db, sessions[s].project_id, sessions[s].r)

\* db.add(...); db.commit(); db.refresh(...) and the except clauses.
SessionCommit(s) ==
    /\ layer = DB
    /\ sessions[s].pc = "pending"
    /\ SessionCommitResult(s).store.project_seq <= MaxIds
    /\ SessionCommitResult(s).store.task_seq <= MaxIds
    /\ db' = SessionCommitResult(s).store
    /\ sessions' = [sessions EXCEPT ![s] = Done(@.op, "committed", SessionCommitResult(s).err)]
    /\ UNCHANGED <<layer, projects, today, last, response, environ, settings, identity, cli, call, job>>

\* Creates of few names race for the same name.
NextSessions ==
    \/ \E s \in Sessions : SessionCreateProject(s, RefProjectRequests)
    \/ \E s \in Sessions : SessionCreateTask(s, RefTaskRequests)
    \/ \E s \in Sessions : SessionCommit(s)

SpecSessions == Init /\ [][NextSessions]_vars

\* Creates of more project names than the limit race for the last free place.
NextRace ==
    \/ \E s \in Sessions : SessionCreateProject(s, ThreeProjectRequests)
    \/ \E s \in Sessions : SessionCommit(s)

SpecRace == Init /\ [][NextRace]_vars

\* C23: whatever the interleaving of the count checks and the inserts of
\* concurrent creates, the project count never exceeds MAX_PROJECTS and no
\* project's task count exceeds MAX_TASKS_PER_PROJECT.
C23_LimitsUnderInterleaving ==
    layer = DB =>
        /\ Len(db.projects) <= MAX_NUMBER_OF_PROJECT
        /\ \A project_id \in Ids : TaskCount(db, project_id) <= MAX_NUMBER_OF_TASK

\* C28: when two creates of one name (two projects, or two tasks of one
\* project) have both passed their exists-by-name check, the commit that comes
\* second is refused with the Duplicate error and leaves the database as it
\* is, so that the committed names stay unique under every interleaving.
C28_UniqueUnderInterleaving ==
    layer = DB =>
        /\ \A i, j \in 1..Len(db.projects) :
                db.projects[i].name = db.projects[j].name => i = j
        /\ \A i, j \in 1..Len(db.tasks) :
                (/\ db.tasks[i].project_id = db.tasks[j].project_id
                 /\ db.tasks[i].name = db.tasks[j].name) => i = j
        /\ \A s \in Sessions :
                (/\ sessions[s].pc = "pending"
                 /\ sessions[s].op = "createProject"
                 /\ \E i \in 1..Len(db.projects) : db.projects[i].name = sessions[s].r.name)
                => SessionCommitResult(s) = Result(DuplicateProjectError, db)
        /\ \A s \in Sessions :
                (/\ sessions[s].pc = "pending"
                 /\ sessions[s].op = "createTask"
                 /\ \E i \in 1..Len(db.tasks) :
                        /\ db.tasks[i].project_id = sessions[s].project_id
                        /\ db.tasks[i].name = sessions[s].r.name)
                => SessionCommitResult(s) = Result(DuplicateTaskError, db)

\* Two creates of one task name passed their checks; the first commit went
\* through and the second was refused.
C28_Witness ==
    /\ sessions["s1"] = Done("createTask", "committed", DuplicateTaskError)
    /\ sessions["s2"] = Done("createTask", "committed", OK)
    /\ Len(db.tasks) = 1

\* ------------------------------------------------- commit and rollback
\* One long-lived session (as the interactive front end holds) runs the
\* repository calls.  An object the session has loaded keeps its attribute
\* values until it is expired: a select that meets its row hands back the
\* object as the session holds it.
CommitProjectCreates == {ProjectRequest(NameA, DescShort)}
CommitProjectUpdates == {ProjectRequest(NameB, DescEmpty)}
CommitTaskCreates == {TaskRequest(NameA, DescShort, TODO, NONE)}
CommitTaskUpdates == {TaskRequest(NameB, DescEmpty, DOING, DeadlineToday)}

\* The rows of `rows` whose primary key is in `old` with other values: the
\* objects the call has assigned to.
Assigned(rows, old) ==
    {rows[i] : i \in {j \in 1..Len(rows) :
                        \E k \in 1..Len(old) : old[k].id = rows[j].id /\ old[k] # rows[j]}}

\* The objects of `held` not replaced by one of `objects`, and `objects`.
Merged(held, objects) ==
    {o \in held : \A n \in objects : n.id # o.id} \cup objects

\* What a read through the session returns: each row of the table, as the
\* object the session holds for it if it holds one.
SessionRows(rows, held) ==
    [i \in 1..Len(rows) |->
        IF \E o \in held : o.id = rows[i].id
        THEN CHOOSE o \in held : o.id = rows[i].id
        ELSE rows[i]]
SessionRead(d, objects) ==
    [projects |-> SessionRows(d.projects, objects.projects),
     tasks |-> SessionRows(d.tasks, objects.tasks)]

Session_rollback_KeepsState(objects) == objects

\* Session.rollback(): the transaction is rolled back and every object of the
\* session is expired, pending ones are expunged.
Session_rollback(objects) == NoObjects

\* Session.commit() and refresh, expire_on_commit=False: the assigned objects
\* stay loaded with the committed values; deleted ones leave the session.
Session_commit(objects, assigned, d) ==
    [projects |-> {o \in Merged(objects.projects, assigned.projects) :
                        \E i \in 1..Len(d.projects) : d.projects[i].id = o.id},
     tasks |-> {o \in Merged(objects.tasks, assigned.tasks) :
                        \E i \in 1..Len(d.tasks) : d.tasks[i].id = o.id}]

\* A repository call on the session.  `res` is the call with its commit going
\* through: its checks, and the rows as the session holds them when commit()
\* is called.
OrmStep(op, res, commit) ==
    LET assigned == [projects |-> Assigned(res.store.projects, db.projects),
                     tasks |-> Assigned(res.store.tasks, db.tasks)]
        dirty == [projects |-> Merged(identity.projects, assigned.projects),
                  tasks |-> Merged(identity.tasks, assigned.tasks)]
    IN  /\ layer = DB
        /\ last = Idle
        /\ res.store.project_seq <= MaxIds
        /\ res.store.task_seq <= MaxIds
        /\ IF res.err # OK
           THEN /\ db' = db
                /\ identity' = identity
                /\ last' = [op |-> op, err |-> res.err]
           ELSE IF commit = COMMIT_OK
           THEN /\ db' = res.store
                /\ identity' = Session_commit(identity, assigned, res.store)
                /\ last' = [op |-> op, err |-> OK]
           ELSE /\ db' = db
                /\ identity' = Session_rollback(dirty)
                /\ last' = [op |-> op, err |-> DatabaseOperationError]
        /\ UNCHANGED <<layer, projects, today, response, environ, settings, sessions, cli, call, job>>

OrmCreateProject ==
    \E r \in CommitProjectCreates, commit \in CommitOutcomes :
        OrmStep("ProjectRepository.create",
                ProjectRepository_create(db, r.name, r.description, COMMIT_OK), commit)

OrmUpdateProject ==
    \E project_id \in Ids, r \in CommitProjectUpdates, commit \in CommitOutcomes :
        OrmStep("ProjectRepository.update",
                ProjectRepository_update(db, project_id, r.name, r.description, COMMIT_OK),
                commit)

OrmDeleteProject ==
    \E project_id \in Ids, commit \in CommitOutcomes :
        OrmStep("ProjectRepository.delete",
                ProjectRepository_delete(db, project_id, COMMIT_OK), commit)

OrmCreateTask ==
    \E project_id \in Ids, r \in CommitTaskCreates, commit \in CommitOutcomes :
        OrmStep("TaskRepository.create",
                TaskRepository_create(db, project_id, r.name, r.description, r.status,
                                      r.deadline, today, COMMIT_OK), commit)

OrmUpdateTask ==
    \E task_id \in Ids, r \in CommitTaskUpdates, commit \in CommitOutcomes :
        OrmStep("TaskRepository.update",
                TaskRepository_update(db, task_id, r.name, r.description, r.status,
                                      r.deadline, today, COMMIT_OK), commit)

OrmUpdateTaskStatus ==
    \E task_id \in Ids, st \in {DONE}, commit \in CommitOutcomes :
        OrmStep("TaskRepository.update_status",
                TaskRepository_update_status(db, task_id, st, COMMIT_OK), commit)

OrmDeleteTask ==
    \E project_id \in Ids, task_id \in Ids, commit \in CommitOutcomes :
        OrmStep("TaskRepository.delete",
                TaskRepository_delete(db, project_id, task_id, COMMIT_OK), commit)

NextCommit ==
    \/ OrmCreateProject
    \/ OrmUpdateProject
    \/ OrmDeleteProject
    \/ OrmCreateTask
    \/ OrmUpdateTask
    \/ OrmUpdateTaskStatus
    \/ OrmDeleteTask
    \/ Return

SpecCommit == Init /\ [][NextCommit]_vars

\* C24: a repository create, update, update_status or delete whose commit
\* fails raises DatabaseOperationError, and what the session then reads -- the
\* projects and the tasks with all their attribute values -- is what it read
\* before the call, which is what the database holds.
C24_FailedCommitLeavesNoTrace ==
    [][(last = Idle /\ last'.err = DatabaseOperationError) =>
          /\ SessionRead(db', identity') = SessionRead(db, identity)
          /\ SessionRead(db', identity') = [projects |-> db'.projects, tasks |-> db'.tasks]
          /\ db' = db]_vars

\* The commit of an update that had assigned new values to a task has failed.
C24_Witness ==
    /\ last = [op |-> "TaskRepository.update", err |-> DatabaseOperationError]
    /\ Len(db.tasks) = 1
    /\ db.tasks[1].name = NameA
    /\ identity = NoObjects

\* ----------------------------------------------------------- the autoclose job
\* Overdue as the job's documentation has it: a deadline before today and a
\* status other than done.
Overdue(task) ==
    /\ task.deadline # NoDate
    /\ DateLT(task.deadline, today)
    /\ task.status # DONE

\* C25: a run of autoclose_overdue_tasks whose commits go through leaves every
\* overdue task done with closed_at set, every other task as it was in all
\* fields, the projects and the number of tasks as they were, and a second
\* run right after it changes nothing.
C25_AutocloseFrame ==
    [][(last = Idle /\ last'.op = "autoclose") =>
          /\ Len(db'.tasks) = Len(db.tasks)
          /\ \A i \in 1..Len(db.tasks) :
                IF Overdue(db.tasks[i])
                THEN /\ db'.tasks[i].status = DONE
                     /\ db'.tasks[i].closed_at # NoDate
                     /\ db'.tasks[i].id = db.tasks[i].id
                ELSE db'.tasks[i] = db.tasks[i]
          /\ db'.projects = db.projects
          /\ db'.project_seq = db.project_seq
          /\ db'.task_seq = db.task_seq
          /\ autoclose_overdue_tasks(
                db', today, [i \in TaskRepository_get_overdue_tasks(db', today) |-> COMMIT_OK])
             = db']_vars

\* The job has closed an overdue task and has left alone a task without a
\* deadline that is not done.
C25_Witness ==
    /\ last = [op |-> "autoclose", err |-> OK]
    /\ \E i \in 1..Len(db.tasks) :
            /\ db.tasks[i].closed_at # NoDate
            /\ db.tasks[i].status = DONE
            /\ DateLT(db.tasks[i].deadline, today)
    /\ \E i \in 1..Len(db.tasks) :
            /\ db.tasks[i].deadline = NoDate
            /\ db.tasks[i].status # DONE
            /\ db.tasks[i].closed_at = NoDate

\* ------------------------------------------------------ validator runs
\* Status texts: a word, bare or with blanks before and after it.
StatusWords ==
    {<<>>, TODO, DOING, DONE, StatusUpper, StatusBlocked,
     <<"T", "o", "d", "o">>, <<"D", "O", "I", "N", "G">>, <<"D", "o", "n", "e">>,
     <<"t", "o", " ", "d", "o">>, <<"d", "o", "n">>, <<"d", "o", "n", "e", "d">>}
Blanks == {<<>>, <<" ">>, <<" ", " ">>}
StatusArguments ==
    {NONE} \cup {before \o word \o after : before \in Blanks, word \in StatusWords,
                                            after \in Blanks}

InitValidate ==
    /\ layer = DB
    /\ projects = <<>>
    /\ db = EmptyDb
    /\ today = StartDate
    /\ last = Idle
    /\ response = NoResponse
    /\ environ = Configured
    /\ settings = [app |-> app_config_settings(Configured), legacy |-> NotImported]
    /\ sessions = [s \in Sessions |-> NoCall]
    /\ identity = NoObjects
    /\ job = NotRunning
    /\ call \in {<<status>> : status \in StatusArguments}
    /\ cli = NotStarted

\* validate_task_status(status) is called.
CallValidateTaskStatus ==
    /\ Len(call) = 1
    /\ call' = call \o validate_task_status(call[1])
    /\ UNCHANGED <<layer, projects, db, today, last, response, environ, settings, sessions,
                   identity, cli, job>>

\* validate_task_status is called on what it returned.
CallValidateTaskStatusAgain ==
    /\ Len(call) = 3
    /\ call[2] = OK
    /\ call' = call \o validate_task_status(call[3])
    /\ UNCHANGED <<layer, projects, db, today, last, response, environ, settings, sessions,
                   identity, cli, job>>

NextValidate ==
    \/ CallValidateTaskStatus
    \/ CallValidateTaskStatusAgain

SpecValidate == InitValidate /\ [][NextValidate]_vars

\* A text of blanks only (the empty text included).
IsBlank(text) == \A i \in 1..Len(text) : text[i] = " "

\* The text without its leading and trailing blanks, lower-cased, when that
\* is one of todo, doing, done; <<>> otherwise.
AllowedForm(text) ==
    IF \E st \in AllowedStatus : \E before, after \in Blanks, cased \in StatusWords :
            text = before \o cased \o after /\ Lower(cased) = st
    THEN CHOOSE st \in AllowedStatus : \E before, after \in Blanks, cased \in StatusWords :
            text = before \o cased \o after /\ Lower(cased) = st
    ELSE <<>>

\* C26: validateStatus returns todo for an absent or blank value; for any
\* other value it returns the trimmed, lower-cased value when that is todo,
\* doing or done (DONE gives done) and fails with ValidationError otherwise
\* (blocked fails); applied to its own result it returns that result.
C26_StatusNormalised ==
    /\ Len(call) >= 3 =>
        IF call[1] = NONE \/ IsBlank(call[1]) THEN call[2] = OK /\ call[3] = TODO
        ELSE IF AllowedForm(call[1]) # <<>>
        THEN call[2] = OK /\ call[3] = AllowedForm(call[1])
        ELSE call[2] = ValidationError
    /\ (Len(call) >= 3 /\ call[1] = StatusUpper) => call[3] = DONE
    /\ (Len(call) >= 3 /\ call[1] = StatusBlocked) => call[2] = ValidationError
    /\ Len(call) = 5 => call[4] = OK /\ call[5] = call[3]

\* ' DONE ' has been normalised to done, and done validated again.
C26_Witness ==
    /\ Len(call) = 5
    /\ call[1] = <<" ">> \o StatusUpper \o <<" ">>
    /\ call[3] = DONE
    /\ call[5] = DONE

\* ------------------------------------------- in-memory task references
\* C27: in the in-memory TodoService, edit_task, edit_task_status and
\* delete_task raise ProjectNotFoundError when the project index addresses no
\* project, and TaskNotFoundError when the project exists and the task index
\* addresses no task of it; the store is unchanged either way.
C27_MissingProjectBeforeMissingTask ==
    (layer = MEM /\ last = Idle) =>
        \A project_index \in ProjectIndexes, task_index \in TaskIndexes :
            LET expected ==
                    IF ~HasIndex(projects, project_index) THEN ProjectNotFoundError
                    ELSE TaskNotFoundError
                missing ==
                    \/ ~HasIndex(projects, project_index)
                    \/ ~HasIndex(projects[project_index + 1].tasks, task_index)
            IN  missing =>
                    /\ \A r \in PlainTaskRequests :
                            TodoService_edit_task(projects, project_index, task_index, r.name,
                                                  r.description, r.status, r.deadline)
                            = Result(expected, projects)
                    /\ \A st \in PlainStatuses :
                            TodoService_edit_task_status(projects, project_index, task_index, st)
                            = Result(expected, projects)
                    /\ TodoService_delete_task(projects, project_index, task_index)
                       = Result(expected, projects)

\* -------------------------------------- the autoclose job beside a writer
\* The job runs on a session of its own: it loads the overdue tasks, then
\* assigns and commits them one by one, while another session edits tasks.
JobProjectRequests == {ProjectRequest(NameA, DescShort)}
JobTaskCreates == {TaskRequest(NameA, DescShort, TODO, DeadlineToday)}
JobTaskEdits == {TaskRequest(NameA, DescShort, DOING, DeadlineFuture)}

\* overdue = repo.get_overdue_tasks(): the rows as they are when the job reads.
JobRead ==
    /\ layer = DB
    /\ job.pc = "off"
    /\ job' = [pc |-> "closing",
               overdue |-> {db.tasks[i] : i \in TaskRepository_get_overdue_tasks(db, today)}]
    /\ UNCHANGED <<layer, projects, db, today, last, response, environ, settings, sessions,
                   identity, call, cli>>

\* One pass of `for task in overdue`: status and closed_at are assigned on the
\* loaded object and committed, which updates these two columns of the row of
\* the object's primary key; the other columns are not written.
JobClose ==
    \E task \in job.overdue :
        /\ layer = DB
        /\ job.pc = "closing"
        /\ db' = [db EXCEPT !.tasks =
                    [i \in 1..Len(@) |->
                        IF @[i].id = task.id
                        THEN [@[i] EXCEPT !.status = DONE, !.closed_at = today]
                        ELSE @[i]]]
        /\ job' = [job EXCEPT !.overdue = @ \ {task}]
        /\ UNCHANGED <<layer, projects, today, last, response, environ, settings, sessions,
                       identity, call, cli>>

\* The loop is over: the summary is printed and the session closed.
JobEnd ==
    /\ layer = DB
    /\ job.pc = "closing"
    /\ job.overdue = {}
    /\ job' = NotRunning
    /\ UNCHANGED <<layer, projects, db, today, last, response, environ, settings, sessions,
                   identity, call, cli>>

NextJob ==
    \/ DbCreateProject(JobProjectRequests, {COMMIT_OK}, {0})
    \/ DbCreateTask(JobTaskCreates, {COMMIT_OK}, {0})
    \/ DbEditTask(JobTaskEdits, {COMMIT_OK})
    \/ Midnight
    \/ JobRead
    \/ JobClose
    \/ JobEnd
    \/ Return

SpecJob == Init /\ [][NextJob]_vars

\* C29: the job marks a task done only if the task is overdue when the change
\* is committed, and its commit changes nothing that another session has
\* committed to the task since the job read it.
C29_ClosesOnlyWhatIsOverdue ==
    [][\A task \in job.overdue :
          (job.pc = "closing" /\ job'.overdue = job.overdue \ {task}) =>
              \A i \in 1..Len(db.tasks) :
                  (db.tasks[i].id = task.id /\ db'.tasks[i] # db.tasks[i]) =>
                      /\ Overdue(db.tasks[i])
                      /\ db.tasks[i].status = task.status]_vars

\* ------------------------------------------------- deadlines as days pass
\* Deadline-centred specification: tasks are created and edited with and
\* without deadlines, days pass between the calls; commits succeed.
DayTaskRequests ==
    {TaskRequest(NameA, DescShort, TODO, deadline) :
        deadline \in {DeadlineNone, DeadlineToday, DeadlineFuture}}

NextDays ==
    \/ MemCreateProject(OneProjectRequests)
    \/ MemCreateTask(DayTaskRequests)
    \/ MemEditTask(DayTaskRequests)
    \/ MemEditTaskStatus({DOING})
    \/ MemDeleteTask
    \/ DbCreateProject(OneProjectRequests, {COMMIT_OK}, {0})
    \/ DbCreateTask(DayTaskRequests, {COMMIT_OK}, {0})
    \/ DbEditTask(DayTaskRequests, {COMMIT_OK})
    \/ DbEditTaskStatus({DOING}, {COMMIT_OK})
    \/ DbDeleteTask({COMMIT_OK})
    \/ Midnight
    \/ Return

SpecDays == Init /\ [][NextDays]_vars

\* The task a ref addresses in a store of the running layer.
TaskIn(store, ref, task_ref) ==
    IF layer = MEM THEN store[ref + 1].tasks[task_ref + 1]
    ELSE store.tasks[CHOOSE i \in 1..Len(store.tasks) : store.tasks[i].id = task_ref]

\* The tasks of a project in a store of the running layer.
TasksIn(store, ref) ==
    IF layer = MEM THEN {store[ref + 1].tasks[i] : i \in 1..Len(store[ref + 1].tasks)}
    ELSE {store.tasks[i] : i \in {k \in 1..Len(store.tasks) : store.tasks[k].project_id = ref}}

\* The deadline a stored task carries, as the text a caller would send to keep
\* it: the in-memory task holds the text it was given, the row holds a date.
KeptDeadline(task) ==
    IF layer = MEM THEN task.deadline
    ELSE IF task.deadline # NoDate THEN isoformat(task.deadline) ELSE NONE

\* The stored deadline is absent or a date not earlier than `now`.
NotPast(task, now) ==
    LET text == KeptDeadline(task) IN
    \/ text = NONE
    \/ Strip(text) = <<>>
    \/ /\ StrpDate(Strip(text))[1]
       /\ ~DateLT(StrpDate(Strip(text))[2], now)

\* C30: after every successful createTask or editTask the task's stored
\* deadline is absent or not earlier than the date of the call, whatever the
\* date has become; once the date has passed a task's deadline, editTask
\* keeping the existing deadline fails with ValidationError and changes
\* nothing, while editTaskStatus and deleteTask on the task still succeed.
C30_DeadlineNotPastAtCall ==
    last = Idle =>
        \A p \in LiveProjectRefs :
            /\ \A deadline \in DeadlineTexts :
                   LET r == TaskRequest(NameB, DescShort, TODO, deadline)
                       created == CreateTask(p, r, COMMIT_OK)
                   IN  /\ created.err = OK =>
                              \A task \in TasksIn(created.store, p) \ TasksIn(Store, p) :
                                  NotPast(task, today)
                       /\ \A t \in LiveTaskRefs(p) :
                              LET edited == EditTask(p, t, [r EXCEPT !.name = TaskAt(p, t).name],
                                                     COMMIT_OK)
                              IN  edited.err = OK => NotPast(TaskIn(edited.store, p, t), today)
            /\ \A t \in LiveTaskRefs(p) :
                   ~NotPast(TaskAt(p, t), today) =>
                       LET task == TaskAt(p, t)
                           kept == EditTask(p, t, TaskRequest(task.name, task.description,
                                                              task.status, KeptDeadline(task)),
                                            COMMIT_OK)
                       IN  /\ kept.err = ValidationError
                           /\ kept.store = Store
                           /\ EditTaskStatus(p, t, DONE, COMMIT_OK).err = OK
                           /\ DeleteTask(p, t, COMMIT_OK).err = OK
====
